---- MODULE Spec2Model ----
(***************************************************************************)
(* Record-keeping engine of dooz-pm-suite: the Intent lifecycle, the       *)
(* Decision ledger, and the AI proposal review workflow, modelled over the  *)
(* rows of the relational store.                                            *)
(*                                                                          *)
(* A nullable column (or an optional input field) holds Null (<<>>) or      *)
(* Some(v) (<<v>>).  nanoid() ids are modelled as the table prefix followed *)
(* by the row's insertion number, which is fresh in a table that is never   *)
(* deleted from; the tables of the graph, which are, number their ids with  *)
(* a counter.                                                               *)
(***************************************************************************)
EXTENDS Integers, Sequences, FiniteSets, TLC

VARIABLES
    intents,      \* rows of table intents, in insertion order
    decisions,    \* rows of table decisions, in insertion order
    assumptions,  \* rows of table assumptions
    risks,        \* rows of table risks
    tasks,        \* rows of table tasks
    edges,        \* rows of table edges
    minted,       \* how many ids nanoid() has produced for the graph's tables
    mode,         \* AI_PROVIDER_MODE: "standalone" or "brain"
    driver,       \* the database driver db/index.ts loads: "sqlite" or "postgres"
    brain,        \* memories the memory sink (dooz-brain) has stored
    outbox,       \* events handed to BridgeClient.emit whose request is in flight
    bridge,       \* events the eventing sink (dooz-bridge) has accepted
    proposals,    \* rows of table ai_proposals, in insertion order
    calls,        \* the request handlers suspended at an await, one per connection
    now,          \* the wall clock read by new Date()
    ret           \* the last completed call: its operation, arguments and result

vars == <<intents, decisions, assumptions, risks, tasks, edges, minted, mode, driver, brain, outbox, bridge, proposals, calls, now, ret>>

(***************************************************************************)
(* Bounds of the model.                                                     *)
(***************************************************************************)
MaxLifecycleIntents == 1   \* intents created in the lifecycle specification
MaxIntents == 2            \* intents created in the ledger specifications
MaxDecisions == 2
MaxProposals == 1
MaxTime == 1
MaxCalls == 2             \* requests in flight together
MaxCommits == 1           \* plain commits in the concurrent specification
MaxMinted == 3            \* ids produced for assumptions, risks, tasks and edges
MaxEdges == 2
MaxEntities == 2           \* ids produced in the entity specification
MaxInbox == 2

Tenants == {"t1", "t2"}
Users == {"u1", "u2"}
Titles == {"A", "B"}

\* The request contexts the SDK middleware resolves: a tenant and its user.
Sessions == {[tenantId |-> "t1", userId |-> "u1"], [tenantId |-> "t2", userId |-> "u2"]}

Null == <<>>
Some(v) == <<v>>
IsNull(o) == o = <<>>
Get(o) == o[1]

IntentId(n) == "i" \o ToString(n)
DecisionId(n) == "d" \o ToString(n)
ProposalId(n) == "p" \o ToString(n)

\* Ids a request may name: the intents that can exist, and one that never does.
IntentIdInputs == {IntentId(n) : n \in 1..MaxIntents} \cup {"ghost"}
LifecycleIdInputs == {IntentId(n) : n \in 1..MaxLifecycleIntents} \cup {"ghost"}
DecisionIdInputs == {DecisionId(n) : n \in 1..MaxDecisions} \cup {"ghost"}
ProposalIdInputs == {ProposalId(n) : n \in 1..MaxProposals} \cup {"ghost"}
InboxIdInputs == {ProposalId(n) : n \in 1..MaxInbox} \cup {"ghost"}

RECURSIVE Join(_, _)
\* Array.prototype.join
Join(seq, sep) ==
    IF Len(seq) = 0 THEN ""
    ELSE IF Len(seq) = 1 THEN seq[1]
    ELSE seq[1] \o sep \o Join(Tail(seq), sep)

\* The rows of a table that satisfy a WHERE clause, in table order.
Rows(table, Where(_)) == SelectSeq(table, Where)

\* UPDATE table SET ... WHERE ...: Set(row) applied to every matching row.
UpdateWhere(table, Where(_), Set(_)) ==
    [k \in 1..Len(table) |-> IF Where(table[k]) THEN Set(table[k]) ELSE table[k]]

(***************************************************************************)
(* Intent lifecycle                                                         *)
(***************************************************************************)
IntentStates == {"research", "planning", "execution", "archived"}

VALID_TRANSITIONS_Skip ==
    [s \in IntentStates |->
        CASE s = "research"  -> <<"planning", "execution", "archived">>
          [] s = "planning"  -> <<"research", "execution", "archived">>
          [] s = "execution" -> <<"planning", "archived">>
          [] s = "archived"  -> << >>]

VALID_TRANSITIONS_Reopen ==
    [s \in IntentStates |->
        CASE s = "research"  -> <<"planning", "archived">>
          [] s = "planning"  -> <<"research", "execution", "archived">>
          [] s = "execution" -> <<"planning", "archived">>
          [] s = "archived"  -> <<"research">>]

VALID_TRANSITIONS ==
    [s \in IntentStates |->
        CASE s = "research"  -> <<"planning", "archived">>
          [] s = "planning"  -> <<"research", "execution", "archived">>
          [] s = "execution" -> <<"planning", "archived">>
          [] s = "archived"  -> << >>]

Includes(seq, x) == \E k \in 1..Len(seq) : seq[k] = x

\* IntentService.getById: the row with that id under that tenant, or Null.
\* A lookup by id alone, whoever the tenant.
IntentGetById_AnyTenant(tenantId, id) ==
    LET found == Rows(intents, LAMBDA r : r.id = id)
    IN IF Len(found) = 0 THEN Null ELSE Some(found[1])

IntentGetById(tenantId, id) ==
    LET found == Rows(intents, LAMBDA r : r.id = id /\ r.tenantId = tenantId)
    IN IF Len(found) = 0 THEN Null ELSE Some(found[1])

\* IntentService.list over a content of the table: the rows of the tenant, of
\* the given state when one is given.
IntentList(table, tenantId, state) ==
    Rows(table, LAMBDA r : r.tenantId = tenantId
                           /\ (IsNull(state) \/ r.currentState = Get(state)))


\* The message of a refused transition; the arrow is U+2192.
InvalidTransitionError(currentState, newState, allowed) ==
    "Invalid transition: " \o currentState \o " → " \o newState
        \o ". Allowed: " \o (IF Join(allowed, ", ") = "" THEN "none" ELSE Join(allowed, ", "))

\* Groups of variables, for the UNCHANGED clauses.
graph == <<assumptions, risks, tasks, edges, minted>>
sinks == <<brain, outbox, bridge>>
deployment == <<mode, driver>>

\* A connection with no handler suspended on it.
Idle == [pc |-> "idle"]

\* What a statement makes of the Date it is given for a text column: the
\* postgres driver serialises it and the value is stored; the sqlite driver
\* does not store it.  Bound after another value (transition) it is refused
\* and the statement throws before it reads or writes a row; bound as the
\* first value (markReviewed) it is taken for the object of named parameters,
\* the statement runs with its parameters unbound and matches no row.
Drivers == {"sqlite", "postgres"}
DateBinds == driver = "postgres"

\* The result of a call of IntentService as its route sees it.  error is the
\* message the service composes itself; the message of an error the driver
\* throws is the runtime's and is not modelled.
IntentResult(op, tenantId, id, target, ok, kind, error) ==
    [op |-> op, tenantId |-> tenantId, id |-> id, target |-> target,
     ok |-> ok, kind |-> kind, error |-> error]

\* IntentService.create: one insert, whose returning() row is the result.
IntentCreate(tenantId, userId, title) ==
    /\ LET created == [id |-> IntentId(Len(intents) + 1),
                       tenantId |-> tenantId,
                       title |-> title,
                       currentState |-> "research",
                       createdBy |-> userId,
                       lastHumanReviewedAt |-> Null]
       IN /\ intents' = Append(intents, created)
          /\ ret' = IntentResult("intent.create", tenantId, created.id, "research",
                                 TRUE, "", "")
    /\ UNCHANGED <<decisions, graph, deployment, sinks, proposals, calls, now>>

\* The bodies a PATCH /:id request may carry: a title, and possibly a
\* currentState key, which is not a field of the schema.
PatchBodies ==
    {[title |-> Some(t), currentState |-> s] :
        t \in Titles, s \in {Null, Some("archived")}}

\* A schema that lets the keys it does not declare through.
UpdateIntentSchema_Passthrough(body) == body

\* UpdateIntentSchema.safeParse(body).data: a z.object drops the keys it does
\* not declare, currentState among them.
UpdateIntentSchema(body) == [title |-> body.title, currentState |-> Null]

\* IntentService.update up to its second await: const existing = await
\* this.getById(tenantId, id); if (!existing) return null.
IntentUpdateRead(c, tenantId, id, input) ==
    /\ calls[c].pc = "idle"
    /\ IF IsNull(IntentGetById(tenantId, id))
       THEN /\ calls' = calls
            /\ ret' = IntentResult("intent.update", tenantId, id, "", FALSE, "NotFound", "")
       ELSE /\ calls' = [calls EXCEPT ![c] =
                   [pc |-> "update", op |-> "intent.update", tenantId |-> tenantId,
                    id |-> id, patch |-> input]]
            /\ ret' = ret
    /\ UNCHANGED <<intents, decisions, graph, deployment, sinks, proposals, now>>

\* await db.update(intents).set(input).where(id, tenantId).returning(), and
\* the return: .set(input) writes every key input carries.
IntentUpdateWrite(c) ==
    /\ calls[c].pc = "update"
    /\ calls[c].op = "intent.update"
    /\ intents' = UpdateWhere(intents,
                      LAMBDA r : r.id = calls[c].id /\ r.tenantId = calls[c].tenantId,
                      LAMBDA r : [r EXCEPT
                          !.title = IF IsNull(calls[c].patch.title) THEN @
                                    ELSE Get(calls[c].patch.title),
                          !.currentState = IF IsNull(calls[c].patch.currentState) THEN @
                                           ELSE Get(calls[c].patch.currentState)])
    /\ ret' = IntentResult("intent.update", calls[c].tenantId, calls[c].id, "",
                           TRUE, "", "")
    /\ calls' = [calls EXCEPT ![c] = Idle]
    /\ UNCHANGED <<decisions, graph, deployment, sinks, proposals, now>>

\* IntentService.transition up to its second await: const intent = await
\* this.getById(tenantId, id), the two guards on what it returned, and the
\* statement built for the update, whose new Date() is read here.
TransitionRead(c, tenantId, userId, id, newState) ==
    /\ calls[c].pc = "idle"
    /\ LET intent == IntentGetById(tenantId, id)
       IN IF IsNull(intent)
          THEN /\ calls' = calls
               /\ ret' = IntentResult("intent.transition", tenantId, id, newState,
                                      FALSE, "NotFound", "Intent not found")
          ELSE LET currentState == Get(intent).currentState
                   allowedTransitions == VALID_TRANSITIONS[currentState]
               IN IF ~Includes(allowedTransitions, newState)
                  THEN /\ calls' = calls
                       /\ ret' = IntentResult("intent.transition", tenantId, id, newState,
                                      FALSE, "InvalidTransition",
                                      InvalidTransitionError(currentState, newState,
                                                             allowedTransitions))
                  ELSE /\ calls' = [calls EXCEPT ![c] =
                              [pc |-> "update", op |-> "intent.transition",
                               tenantId |-> tenantId, id |-> id,
                               currentState |-> currentState, newState |-> newState,
                               at |-> now]]
                       /\ ret' = ret
    /\ UNCHANGED <<intents, decisions, graph, deployment, sinks, proposals, now>>

\* The awaited update of transition executes: set currentState = newState
\* and lastHumanReviewedAt = the Date the statement was built with, where id
\* and tenantId match, and the return.  The Date is the second parameter of
\* the statement.  The event of the transition is a comment in the code.
TransitionUpdate(c) ==
    /\ calls[c].pc = "update"
    /\ calls[c].op = "intent.transition"
    /\ IF DateBinds
       THEN /\ intents' = UpdateWhere(intents,
                              LAMBDA r : r.id = calls[c].id /\ r.tenantId = calls[c].tenantId,
                              LAMBDA r : [r EXCEPT !.currentState = calls[c].newState,
                                                   !.lastHumanReviewedAt = Some(calls[c].at)])
            /\ ret' = IntentResult("intent.transition", calls[c].tenantId, calls[c].id,
                                   calls[c].newState, TRUE, "", "")
       ELSE /\ intents' = intents
            /\ ret' = IntentResult("intent.transition", calls[c].tenantId, calls[c].id,
                                   calls[c].newState, FALSE, "Throw", "")
    /\ calls' = [calls EXCEPT ![c] = Idle]
    /\ UNCHANGED <<decisions, graph, deployment, sinks, proposals, now>>

\* A review stamp written to the row of that id, whoever owns it.
MarkReviewedAt_AnyTenant(table, tenantId, id, at) ==
    UpdateWhere(table,
                LAMBDA r : r.id = id,
                LAMBDA r : [r EXCEPT !.lastHumanReviewedAt = Some(at)])

\* db.update(intents).set({ lastHumanReviewedAt: new Date() }).where(id, tenantId),
\* with at the clock reading of new Date(): the table the statement leaves.
\* On a driver that does not store the Date the statement matches no row and
\* the table is as it was.
MarkReviewedAt(table, tenantId, id, at) ==
    IF DateBinds
    THEN UpdateWhere(table,
                     LAMBDA r : r.id = id /\ r.tenantId = tenantId,
                     LAMBDA r : [r EXCEPT !.lastHumanReviewedAt = Some(at)])
    ELSE table

\* IntentService.markReviewed up to its await: the statement is built, its
\* new Date() read, and the handler waits for the update to execute.
MarkReviewedStart(c, tenantId, id) ==
    /\ calls[c].pc = "idle"
    /\ calls' = [calls EXCEPT ![c] =
           [pc |-> "update", op |-> "intent.markReviewed", tenantId |-> tenantId,
            id |-> id, at |-> now]]
    /\ ret' = ret
    /\ UNCHANGED <<intents, decisions, graph, deployment, sinks, proposals, now>>

\* The awaited update of markReviewed executes: its returning() row, or
\* undefined when no row matched, is the result (the route answers 404
\* 'Intent not found' to undefined).  The Date is the first value of the
\* statement: where the driver does not store it no row matches, whether or
\* not the intent exists, and nothing is thrown.
MarkReviewedUpdate(c) ==
    /\ calls[c].pc = "update"
    /\ calls[c].op = "intent.markReviewed"
    /\ intents' = MarkReviewedAt(intents, calls[c].tenantId, calls[c].id, calls[c].at)
    /\ LET found == DateBinds /\ ~IsNull(IntentGetById(calls[c].tenantId, calls[c].id))
       IN  ret' = IntentResult("intent.markReviewed", calls[c].tenantId, calls[c].id,
                               "", found, IF found THEN "" ELSE "NotFound", "")
    /\ calls' = [calls EXCEPT ![c] = Idle]
    /\ UNCHANGED <<decisions, graph, deployment, sinks, proposals, now>>

\* The wall clock advances between requests.
Tick ==
    /\ now' = now + 1
    /\ ret' = [op |-> "tick"]
    /\ UNCHANGED <<intents, decisions, graph, deployment, sinks, proposals, calls>>

\* Every table empty, no request in flight, nothing sent to a collaborator.
InitStore ==
    /\ intents = << >>
    /\ decisions = << >>
    /\ assumptions = << >>
    /\ risks = << >>
    /\ tasks = << >>
    /\ edges = << >>
    /\ minted = 0
    /\ brain = {}
    /\ outbox = {}
    /\ bridge = {}
    /\ proposals = << >>
    /\ calls = [c \in 1..MaxCalls |-> Idle]
    /\ now = 0
    /\ ret = [op |-> "init"]

ProviderModes == {"standalone", "brain"}

\* getProviderConfig: AI_PROVIDER_MODE is not set, so the mode is standalone;
\* NODE_ENV is not production, so the driver is bun:sqlite.
Init == InitStore /\ mode = "standalone" /\ driver = "sqlite"

\* The deployment sets AI_PROVIDER_MODE or leaves it unset.
InitSinks == InitStore /\ mode \in ProviderModes /\ driver = "sqlite"

\* The deployment runs in development or in production.
InitLifecycle == InitStore /\ mode = "standalone" /\ driver \in Drivers

\* The lifecycle specification: update and transition, which await twice,
\* are requested one after the other on one connection; markReviewed is
\* requested at any time on any connection.
NextIntent ==
    \/ /\ Len(intents) < MaxLifecycleIntents
       /\ \E c \in Sessions, title \in Titles : IntentCreate(c.tenantId, c.userId, title)
    \/ \E c \in Sessions, id \in LifecycleIdInputs, body \in PatchBodies :
           IntentUpdateRead(1, c.tenantId, id, UpdateIntentSchema(body))
    \/ IntentUpdateWrite(1)
    \/ \E c \in Sessions, id \in LifecycleIdInputs, s \in IntentStates :
           TransitionRead(1, c.tenantId, c.userId, id, s)
    \/ TransitionUpdate(1)
    \/ \E c \in 1..MaxCalls, x \in Sessions, id \in LifecycleIdInputs :
           MarkReviewedStart(c, x.tenantId, id)
    \/ \E c \in 1..MaxCalls : MarkReviewedUpdate(c)
    \/ (now < MaxTime /\ Tick)

SpecIntent == InitLifecycle /\ [][NextIntent]_vars

(***************************************************************************)
(* Concurrent lifecycle requests.  A handler runs until its next await and  *)
(* other requests run in between.                                           *)
(***************************************************************************)
NextRace ==
    \/ /\ Len(intents) < MaxLifecycleIntents
       /\ \E c \in Sessions : IntentCreate(c.tenantId, c.userId, "A")
    \/ \E c \in 1..MaxCalls, x \in Sessions, id \in LifecycleIdInputs, s \in IntentStates :
           TransitionRead(c, x.tenantId, x.userId, id, s)
    \/ \E c \in 1..MaxCalls : TransitionUpdate(c)
    \/ \E c \in 1..MaxCalls, x \in Sessions, id \in LifecycleIdInputs, body \in PatchBodies :
           IntentUpdateRead(c, x.tenantId, id, UpdateIntentSchema(body))
    \/ \E c \in 1..MaxCalls : IntentUpdateWrite(c)

SpecRace == InitLifecycle /\ [][NextRace]_vars

(***************************************************************************)
(* Decision ledger                                                          *)
(***************************************************************************)
\* JSON text is modelled as its sequence of tokens: the brackets, the quoted
\* strings and the commas between them.
JsonQuote(str) == "\"" \o str \o "\""

RECURSIVE JsonElements(_)
JsonElements(arr) ==
    IF Len(arr) = 0 THEN << >>
    ELSE IF Len(arr) = 1 THEN <<JsonQuote(arr[1])>>
    ELSE <<JsonQuote(arr[1]), ",">> \o JsonElements(Tail(arr))

\* JSON.stringify of an array of strings.
JsonStringify(arr) == <<"[">> \o JsonElements(arr) \o <<"]">>

\* Column default of decisions.decision_timestamp: the text literal that the
\* schema gives to .default(), which commit never overrides.
DEFAULT_TIMESTAMP == "CURRENT_TIMESTAMP"

\* The request bodies CreateDecisionSchema accepts that the model draws from.
DecisionInputs ==
    {[intentId |-> i,
      decisionStatement |-> "Pick a database",
      optionsConsidered |-> Some(<<"A", "B">>),
      finalChoice |-> "Use Postgres",
      revisitCondition |-> Null,
      aiInputsReferenced |-> Null] : i \in IntentIdInputs}
    \cup
    {[intentId |-> i,
      decisionStatement |-> "Pick a database",
      optionsConsidered |-> Null,
      finalChoice |-> "Use SQLite",
      revisitCondition |-> Some("after launch"),
      aiInputsReferenced |-> Some(<<"r1">>)] : i \in IntentIdInputs}

\* The ledger requests the model draws from: the request context and the body.
DecisionRequests ==
    {[tenantId |-> "t1", userId |-> "u1", input |-> i] :
        i \in {x \in DecisionInputs : x.finalChoice = "Use Postgres"}}
    \cup
    {[tenantId |-> "t2", userId |-> "u2", input |-> i] :
        i \in {x \in DecisionInputs : x.finalChoice = "Use SQLite"}}

\* DecisionService.getById over a given content of the table.
DecisionGetById(table, id) ==
    LET found == Rows(table, LAMBDA r : r.id = id)
    IN IF Len(found) = 0 THEN Null ELSE Some(found[1])

\* A database that does not enforce the reference: any intent id is accepted.
ForeignKeyHolds_Off(intentId) == intentId \in IntentIdInputs

\* decisions.intent_id REFERENCES intents(id), enforced by PRAGMA foreign_keys = ON:
\* an insert naming an intent that is not stored raises a constraint error.
ForeignKeyHolds(intentId) == \E k \in 1..Len(intents) : intents[k].id = intentId

\* A row stored as a draft awaiting approval, with no approver recorded.
NewDecision_Draft(table, userId, input) ==
    [id |-> DecisionId(Len(table) + 1),
     intentId |-> input.intentId,
     decisionStatement |-> input.decisionStatement,
     optionsConsidered |-> Null,
     finalChoice |-> input.finalChoice,
     humanApprover |-> "",
     aiInputsReferenced |-> Null,
     decisionTimestamp |-> DEFAULT_TIMESTAMP,
     revisitCondition |-> input.revisitCondition,
     status |-> "draft"]

\* The row commit builds (newDecision) and the store completes with defaults.
NewDecision(table, userId, input) ==
    [id |-> DecisionId(Len(table) + 1),
     intentId |-> input.intentId,
     decisionStatement |-> input.decisionStatement,
     optionsConsidered |-> IF ~IsNull(input.optionsConsidered)
                           THEN Some(JsonStringify(Get(input.optionsConsidered)))
                           ELSE Null,
     finalChoice |-> input.finalChoice,
     humanApprover |-> userId,
     aiInputsReferenced |-> IF ~IsNull(input.aiInputsReferenced)
                            THEN Some(JsonStringify(Get(input.aiInputsReferenced)))
                            ELSE Null,
     decisionTimestamp |-> DEFAULT_TIMESTAMP,
     revisitCondition |-> input.revisitCondition,
     status |-> "active"]

InsertDecision_Overwrite(table, row) ==
    IF Len(table) = 0 THEN <<row>> ELSE [table EXCEPT ![Len(table)] = row]

\* db.insert(decisions).values(newDecision)
InsertDecision(table, row) == Append(table, row)

CanSupersede_AnyStatus(original) == ~IsNull(original)

\* The guard of supersede: the original exists and is active.
CanSupersede(original) == ~IsNull(original) /\ Get(original).status = "active"

MarkSuperseded_All(table, originalId) ==
    UpdateWhere(table, LAMBDA r : TRUE, LAMBDA r : [r EXCEPT !.status = "superseded"])

\* db.update(decisions).set({ status: 'superseded' }).where(eq(decisions.id, originalId))
MarkSuperseded(table, originalId) ==
    UpdateWhere(table, LAMBDA r : r.id = originalId,
                LAMBDA r : [r EXCEPT !.status = "superseded"])

BackReference(originalId) == "supersedes:" \o originalId

\* The input supersede hands to commit: newInput with the back-reference appended.
SupersedeInput(newInput, originalId) ==
    [newInput EXCEPT !.aiInputsReferenced =
        Some((IF IsNull(newInput.aiInputsReferenced) THEN << >>
              ELSE Get(newInput.aiInputsReferenced)) \o <<BackReference(originalId)>>)]

\* The event commit hands to BridgeClient.emit.
DecisionCommitted(created) ==
    [topic |-> "pm.decision.committed", decisionId |-> created.id,
     intentId |-> created.intentId]


SinkOutcomes == {"ok", "refused", "unreachable"}

\* The memory commit hands to provider.storeMemory.
DecisionMemory(tenantId, input) ==
    [scopeId |-> "pm-suite-" \o tenantId, title |-> "Decision: " \o input.finalChoice,
     bucketId |-> "decisions"]

\* What commit resolves to.
CommitResult(call) ==
    [op |-> "decision.commit", ok |-> TRUE, kind |-> "",
     intentId |-> call.input.intentId, userId |-> call.userId,
     input |-> call.input, created |-> call.created, sync |-> call.sync]

\* What supersede resolves to: the original as it was read, with the status
\* replaced, and the row commit returned.
SupersedeResult(call) ==
    [op |-> "decision.supersede", ok |-> TRUE, kind |-> "",
     originalId |-> call.originalId, userId |-> call.userId,
     newInput |-> call.newInput,
     original |-> [call.original EXCEPT !.status = "superseded"],
     replacement |-> call.created, sync |-> call.sync]

\* DecisionService.commit up to its next await: const [created] = await
\* db.insert(decisions).values(newDecision).returning().  The insert either
\* raises the foreign-key error, which commit does not catch, or stores the
\* row; commit then awaits provider.storeMemory (brain mode) or the import of
\* ../lib/bridge.
CommitInsert(c, tenantId, userId, input) ==
    /\ calls[c].pc = "idle"
    /\ IF ~ForeignKeyHolds(input.intentId)
       THEN /\ decisions' = decisions
            /\ calls' = calls
            /\ ret' = [op |-> "decision.commit", ok |-> FALSE, kind |-> "Throw",
                       intentId |-> input.intentId]
       ELSE LET created == NewDecision(decisions, userId, input)
            IN /\ decisions' = InsertDecision(decisions, created)
               /\ calls' = [calls EXCEPT ![c] =
                      [pc |-> IF mode = "brain" THEN "storeMemory" ELSE "import",
                       op |-> "decision.commit", userId |-> userId, input |-> input,
                       created |-> created, memory |-> DecisionMemory(tenantId, input),
                       sync |-> "none"]]
               /\ ret' = ret
    /\ UNCHANGED <<intents, graph, deployment, sinks, proposals, now>>

\* DecisionService.supersede up to its second await: const original = await
\* this.getById(originalId), and the guard on what it returned.
SupersedeRead(c, tenantId, userId, originalId, newInput) ==
    /\ calls[c].pc = "idle"
    /\ LET original == DecisionGetById(decisions, originalId)
       IN IF ~CanSupersede(original)
          THEN /\ calls' = calls
               /\ ret' = [op |-> "decision.supersede", ok |-> FALSE, kind |-> "Null",
                          originalId |-> originalId, userId |-> userId]
          ELSE /\ calls' = [calls EXCEPT ![c] =
                      [pc |-> "update", op |-> "decision.supersede",
                       tenantId |-> tenantId, userId |-> userId,
                       originalId |-> originalId, newInput |-> newInput,
                       original |-> Get(original)]]
               /\ ret' = ret
    /\ UNCHANGED <<intents, decisions, graph, deployment, sinks, proposals, now>>

\* await db.update(decisions).set({ status: 'superseded' }).where(eq(id, originalId))
SupersedeUpdate(c) ==
    /\ calls[c].pc = "update"
    /\ calls[c].op = "decision.supersede"
    /\ decisions' = MarkSuperseded(decisions, calls[c].originalId)
    /\ calls' = [calls EXCEPT ![c].pc = "insert"]
    /\ UNCHANGED <<intents, graph, deployment, sinks, proposals, now, ret>>

\* await this.commit(tenantId, userId, { ...newInput, aiInputsReferenced }), up
\* to the await after the insert of commit.  The error of the insert passes
\* through supersede, which has no handler for it.
SupersedeInsert(c) ==
    /\ calls[c].pc = "insert"
    /\ calls[c].op = "decision.supersede"
    /\ LET input == SupersedeInput(calls[c].newInput, calls[c].originalId)
       IN IF ~ForeignKeyHolds(input.intentId)
          THEN /\ decisions' = decisions
               /\ calls' = [calls EXCEPT ![c] = Idle]
               /\ ret' = [op |-> "decision.supersede", ok |-> FALSE, kind |-> "Throw",
                          originalId |-> calls[c].originalId, userId |-> calls[c].userId]
          ELSE LET replacement == NewDecision(decisions, calls[c].userId, input)
               IN /\ decisions' = InsertDecision(decisions, replacement)
                  /\ calls' = [calls EXCEPT ![c] =
                         [pc |-> IF mode = "brain" THEN "storeMemory" ELSE "import",
                          op |-> "decision.supersede", userId |-> calls[c].userId,
                          originalId |-> calls[c].originalId,
                          newInput |-> calls[c].newInput,
                          original |-> calls[c].original,
                          input |-> input, created |-> replacement,
                          memory |-> DecisionMemory(calls[c].tenantId, input),
                          sync |-> "none"]]
                  /\ ret' = ret
    /\ UNCHANGED <<intents, graph, deployment, sinks, proposals, now>>

\* A commit whose caller sees the failure of the memory sync.
StoreMemoryAnswer_Surface(c, outcome) ==
    /\ calls[c].pc = "storeMemory"
    /\ brain' = IF outcome = "ok" THEN brain \cup {calls[c].memory} ELSE brain
    /\ IF outcome = "ok"
       THEN /\ calls' = [calls EXCEPT ![c].pc = "import", ![c].sync = outcome]
            /\ ret' = ret
       ELSE /\ calls' = [calls EXCEPT ![c] = Idle]
            /\ ret' = [op |-> calls[c].op, ok |-> FALSE, kind |-> "Throw",
                       created |-> calls[c].created, sync |-> outcome]
    /\ UNCHANGED <<intents, decisions, graph, deployment, outbox, bridge, proposals, now>>

\* The memory sink answers the request of storeMemory: it stores the memory,
\* refuses it (a response that is not ok) or cannot be reached (fetch
\* rejects).  storeMemory resolves in each case (after res.json() when the
\* response is ok), and commit goes on to await the import of ../lib/bridge.
StoreMemoryAnswer(c, outcome) ==
    /\ calls[c].pc = "storeMemory"
    /\ brain' = IF outcome = "ok" THEN brain \cup {calls[c].memory} ELSE brain
    /\ calls' = [calls EXCEPT ![c].pc = "import", ![c].sync = outcome]
    /\ UNCHANGED <<intents, decisions, graph, deployment, outbox, bridge, proposals, now, ret>>

\* commit after await import('../lib/bridge'): BridgeClient.emit is called,
\* not awaited, and commit returns created; a supersede that awaited this
\* commit returns in its turn.
CommitEmit(c) ==
    /\ calls[c].pc = "import"
    /\ outbox' = outbox \cup {DecisionCommitted(calls[c].created)}
    /\ ret' = IF calls[c].op = "decision.commit" THEN CommitResult(calls[c])
              ELSE SupersedeResult(calls[c])
    /\ calls' = [calls EXCEPT ![c] = Idle]
    /\ UNCHANGED <<intents, decisions, graph, deployment, brain, bridge, proposals, now>>

\* The eventing sink answers an emission: it accepts the event, refuses it or
\* cannot be reached.  BridgeClient.emit resolves to true or false, which
\* nothing reads.
BridgeAnswer(e, outcome) ==
    /\ e \in outbox
    /\ outbox' = outbox \ {e}
    /\ bridge' = IF outcome = "ok" THEN bridge \cup {e} ELSE bridge
    /\ UNCHANGED <<intents, decisions, graph, deployment, brain, proposals, calls, now, ret>>

RECURSIVE Orderings(_)
\* Every arrangement of a set of rows as a sequence.
Orderings(rowSet) ==
    IF rowSet = {} THEN {<< >>}
    ELSE UNION {{<<r>> \o rest : rest \in Orderings(rowSet \ {r})} : r \in rowSet}

\* ORDER BY decision_timestamp (either direction): the possible results.  The
\* rows are ordered by their key; rows whose keys are equal come in an order
\* the store chooses.  Every stored key is DEFAULT_TIMESTAMP.
OrderByDecisionTimestamp(rows) ==
    {o \in Orderings({rows[k] : k \in 1..Len(rows)}) :
        \A a, b \in 1..Len(o) :
            (a < b /\ o[a].decisionTimestamp # o[b].decisionTimestamp) => FALSE}

\* DecisionService.getActiveByIntent: the results the query can return.
GetActiveByIntent(intentId) ==
    OrderByDecisionTimestamp(
        Rows(decisions, LAMBDA r : r.intentId = intentId /\ r.status = "active"))

\* DecisionService.getLedger: the results the query can return.
GetLedger(intentId) ==
    OrderByDecisionTimestamp(Rows(decisions, LAMBDA r : r.intentId = intentId))

\* DecisionService.listByIntent: the results the query can return.
ListByIntent(intentId) ==
    OrderByDecisionTimestamp(Rows(decisions, LAMBDA r : r.intentId = intentId))

\* The ledger specification: intents are created, decisions are committed
\* and superseded, each commit or supersede requested when the one before it
\* has returned.
NextLedger ==
    \/ /\ Len(intents) < MaxIntents
       /\ \E c \in Sessions : IntentCreate(c.tenantId, c.userId, "A")
    \/ \E r \in DecisionRequests :
           CommitInsert(1, r.tenantId, r.userId, r.input) /\ Len(decisions') <= MaxDecisions
    \/ \E r \in DecisionRequests, id \in DecisionIdInputs :
           SupersedeRead(1, r.tenantId, r.userId, id, r.input)
    \/ SupersedeUpdate(1)
    \/ SupersedeInsert(1) /\ Len(decisions') <= MaxDecisions
    \/ CommitEmit(1)

SpecLedger == Init /\ [][NextLedger]_vars

\* Bodies that pass CreateDecisionSchema and name references of their own:
\* aiInputsReferenced is any array of strings.
ReferenceInputs ==
    {[intentId |-> IntentId(1),
      decisionStatement |-> "Pick a database",
      optionsConsidered |-> Null,
      finalChoice |-> "Use Postgres",
      revisitCondition |-> Null,
      aiInputsReferenced |-> refs] :
        refs \in {Null, Some(<<"note-1">>)}
                 \cup {Some(<<BackReference(x)>>) : x \in DecisionIdInputs}}

\* The ledger with callers that pass references: commits and supersedes
\* under one intent.
NextReferences ==
    \/ /\ Len(intents) < MaxLifecycleIntents
       /\ IntentCreate("t1", "u1", "A")
    \/ \E input \in ReferenceInputs :
           CommitInsert(1, "t1", "u1", input) /\ Len(decisions') <= MaxDecisions
    \/ \E input \in ReferenceInputs, id \in DecisionIdInputs :
           SupersedeRead(1, "t1", "u1", id, input)
    \/ SupersedeUpdate(1)
    \/ SupersedeInsert(1) /\ Len(decisions') <= MaxDecisions
    \/ CommitEmit(1)

SpecReferences == Init /\ [][NextReferences]_vars

(***************************************************************************)
(* Concurrent ledger requests.  A request handler runs until its next await *)
(* and other requests run in between: supersede awaits its read of the      *)
(* original, its update of the status, and the commit of the replacement.   *)
(***************************************************************************)
\* The requests of the concurrent specification: the bodies that name the
\* first intent.
ConcurrentRequests == {r \in DecisionRequests : r.input.intentId = IntentId(1)}

NextConcurrent ==
    \/ /\ Len(intents) < MaxLifecycleIntents
       /\ IntentCreate("t1", "u1", "A")
    \/ /\ Len(decisions) < MaxCommits
       /\ \E c \in 1..MaxCalls, r \in ConcurrentRequests :
              CommitInsert(c, r.tenantId, r.userId, r.input)
    \/ \E c \in 1..MaxCalls, r \in ConcurrentRequests, id \in DecisionIdInputs :
           SupersedeRead(c, r.tenantId, r.userId, id, r.input)
    \/ \E c \in 1..MaxCalls : SupersedeUpdate(c)
    \/ \E c \in 1..MaxCalls :
           SupersedeInsert(c) /\ Len(decisions') <= MaxCommits + MaxCalls
    \/ \E c \in 1..MaxCalls : CommitEmit(c)

SpecConcurrent == Init /\ [][NextConcurrent]_vars

(***************************************************************************)
(* Commit and its collaborators.  After the insert, commit awaits            *)
(* provider.storeMemory when the mode is brain, then calls BridgeClient.emit *)
(* without awaiting it, and returns.  The memory sink and the eventing sink  *)
(* answer when they answer, or never.                                        *)
(***************************************************************************)
NextSinks ==
    \/ /\ Len(intents) < MaxLifecycleIntents
       /\ \E c \in Sessions : IntentCreate(c.tenantId, c.userId, "A")
    \/ \E c \in 1..MaxCalls, r \in DecisionRequests :
           CommitInsert(c, r.tenantId, r.userId, r.input) /\ Len(decisions') <= MaxCommits
    \/ \E c \in 1..MaxCalls, outcome \in SinkOutcomes : StoreMemoryAnswer(c, outcome)
    \/ \E c \in 1..MaxCalls : CommitEmit(c)
    \/ \E e \in outbox, outcome \in SinkOutcomes : BridgeAnswer(e, outcome)

SpecSinks == InitSinks /\ [][NextSinks]_vars

(***************************************************************************)
(* Proposal workflow                                                        *)
(***************************************************************************)
ProposalTypes == {"decision", "assumption", "risk", "question"}

\* A value of the provider's JSON reply with the type typeof gives it; a key
\* the object does not carry reads as undefined.
JsonString(s) == [t |-> "string", v |-> s]
JsonNumber(n) == [t |-> "number", v |-> n]
Undefined == [t |-> "undefined", v |-> ""]

\* What the extraction provider may answer: the extractions array of its
\* JSON reply.  "task" is a type the service does not know.
Extraction(type) ==
    [type |-> type, statement |-> JsonString("We use Postgres"),
     confidence |-> JsonNumber("0.8")]

\* Entries the provider got wrong: a confidence in words, no confidence, no
\* statement.
Malformed ==
    {[Extraction("decision") EXCEPT !.confidence = JsonString("high")],
     [Extraction("risk") EXCEPT !.confidence = Undefined],
     [Extraction("assumption") EXCEPT !.statement = Undefined]}

Responses ==
    {<< >>,
     <<Extraction("decision")>>,
     <<Extraction("assumption")>>,
     <<Extraction("risk")>>,
     <<Extraction("question")>>,
     <<Extraction("decision"), Extraction("task")>>,
     <<Extraction("assumption"), Extraction("question")>>}
    \cup {<<m>> : m \in Malformed}
    \cup {<<m, Extraction("question")>> : m \in Malformed}

\* parseExtractions: the entries with a known type, a string statement and a
\* numeric confidence are kept.
ParseExtractions(extractions) ==
    SelectSeq(extractions, LAMBDA e : /\ e.type \in ProposalTypes
                                      /\ e.statement.t = "string"
                                      /\ e.confidence.t = "number")

\* JSON.stringify({ statement, context }) with context undefined.
ProposalContent(extraction) ==
    <<"{", "\"statement\"", ":", JsonQuote(extraction.statement.v), "}">>

\* A row filed as already accepted by the extraction model.
NewProposal_Accepted(table, intentId, extraction) ==
    [id |-> ProposalId(Len(table) + 1),
     intentId |-> intentId,
     proposalType |-> extraction.type,
     content |-> <<"{", "\"statement\"", ":", JsonQuote(extraction.statement.v), "}">>,
     promptTemplateId |-> Some("extraction-v1"),
     modelUsed |-> Some("model"),
     confidence |-> Some(extraction.confidence.v),
     status |-> "accepted",
     reviewedBy |-> Some("model"),
     reviewedAt |-> Null]

\* The row process builds for one extraction.
NewProposal(table, intentId, extraction) ==
    [id |-> ProposalId(Len(table) + 1),
     intentId |-> intentId,
     proposalType |-> extraction.type,
     content |-> ProposalContent(extraction),
     promptTemplateId |-> Some("extraction-v1"),
     modelUsed |-> Some("model"),
     confidence |-> Some(extraction.confidence.v),
     status |-> "pending",
     reviewedBy |-> Null,
     reviewedAt |-> Null]

\* ai_proposals.intent_id REFERENCES intents(id): null passes, a stored intent passes.
ProposalForeignKeyHolds(intentId) == IsNull(intentId) \/ ForeignKeyHolds(Get(intentId))

\* const [proposal] = await db.select().from(aiProposals).where(eq(aiProposals.id, proposalId))
ProposalGetById(proposalId) ==
    LET found == Rows(proposals, LAMBDA r : r.id = proposalId)
    IN IF Len(found) = 0 THEN Null ELSE Some(found[1])

ProcessResult(ok, stored, error) ==
    [op |-> "ingestion.process", ok |-> ok, proposals |-> stored, error |-> error]

RouterNotConfigured ==
    "AI router not configured. Set OPENROUTER_API_KEY or OLLAMA_ENABLED=true"

\* IngestionService.process up to its first await: getRouter() gives no
\* router and process returns, or process awaits router.complete.
ProcessStart(c, tenantId, userId, intentId, configured) ==
    /\ calls[c].pc = "idle"
    /\ IF ~configured
       THEN /\ calls' = calls
            /\ ret' = ProcessResult(FALSE, << >>, RouterNotConfigured)
       ELSE /\ calls' = [calls EXCEPT ![c] =
                   [pc |-> "complete", op |-> "ingestion.process", intentId |-> intentId,
                    parsed |-> << >>, stored |-> << >>, rowId |-> ""]]
            /\ ret' = ret
    /\ UNCHANGED <<intents, decisions, graph, deployment, sinks, proposals, now>>

\* router.complete settles: it rejects, and the catch returns the message, or
\* it answers and the reply is parsed; with nothing to store process returns,
\* otherwise it goes to the insert of the first extraction.
ProcessComplete(c, rejects, extractions) ==
    /\ calls[c].pc = "complete"
    /\ IF rejects
       THEN /\ calls' = [calls EXCEPT ![c] = Idle]
            /\ ret' = ProcessResult(FALSE, << >>, "complete failed")
       ELSE IF Len(ParseExtractions(extractions)) = 0
       THEN /\ calls' = [calls EXCEPT ![c] = Idle]
            /\ ret' = ProcessResult(TRUE, << >>, "")
       ELSE /\ calls' = [calls EXCEPT ![c].pc = "insert",
                                      ![c].parsed = ParseExtractions(extractions)]
            /\ ret' = ret
    /\ UNCHANGED <<intents, decisions, graph, deployment, sinks, proposals, now>>

\* await db.insert(aiProposals).values(proposal) for the next extraction.  The
\* insert stores the row, or it throws (the foreign key does not hold, or the
\* database refuses the statement) and the catch returns no proposals; the
\* rows of the extractions before it stay.
ProcessInsert(c, outcome) ==
    /\ calls[c].pc = "insert"
    /\ calls[c].op = "ingestion.process"
    /\ IF ProposalForeignKeyHolds(calls[c].intentId) = FALSE
       THEN /\ proposals' = proposals
            /\ calls' = [calls EXCEPT ![c] = Idle]
            /\ ret' = ProcessResult(FALSE, << >>, "FOREIGN KEY constraint failed")
       ELSE IF outcome = "error"
       THEN /\ proposals' = proposals
            /\ calls' = [calls EXCEPT ![c] = Idle]
            /\ ret' = ProcessResult(FALSE, << >>, "insert failed")
       ELSE LET proposal == NewProposal(proposals, calls[c].intentId, calls[c].parsed[1])
            IN /\ proposals' = Append(proposals, proposal)
               /\ calls' = [calls EXCEPT ![c].pc = "select", ![c].rowId = proposal.id]
               /\ ret' = ret
    /\ UNCHANGED <<intents, decisions, graph, deployment, sinks, now>>

\* const [inserted] = await db.select()...where(eq(id, proposal.id)): the row
\* as it is stored now is pushed, and the loop goes on or process returns.
ProcessSelect(c) ==
    /\ calls[c].pc = "select"
    /\ calls[c].op = "ingestion.process"
    /\ LET inserted == ProposalGetById(calls[c].rowId)
           stored == IF IsNull(inserted) THEN calls[c].stored
                     ELSE Append(calls[c].stored, Get(inserted))
       IN IF Len(calls[c].parsed) = 1
          THEN /\ calls' = [calls EXCEPT ![c] = Idle]
               /\ ret' = ProcessResult(TRUE, stored, "")
          ELSE /\ calls' = [calls EXCEPT ![c].pc = "insert",
                                         ![c].parsed = Tail(calls[c].parsed),
                                         ![c].stored = stored]
               /\ ret' = ret
    /\ UNCHANGED <<intents, decisions, graph, deployment, sinks, proposals, now>>

\* An update that writes the status and leaves the reviewer columns alone.
SetReview_StatusOnly(table, proposalId, status, userId, at) ==
    UpdateWhere(table, LAMBDA r : r.id = proposalId,
                LAMBDA r : [r EXCEPT !.status = status])

\* db.update(aiProposals).set({ status, reviewedBy, reviewedAt }).where(eq(id, proposalId))
SetReview(table, proposalId, status, userId, at) ==
    UpdateWhere(table, LAMBDA r : r.id = proposalId,
                LAMBDA r : [r EXCEPT !.status = status,
                                     !.reviewedBy = Some(userId),
                                     !.reviewedAt = Some(at)])

ReviewResult(op, proposalId, ok, kind, error) ==
    [op |-> op, proposalId |-> proposalId, ok |-> ok, kind |-> kind, error |-> error]

\* The review actions of the routes: acceptProposal, rejectProposal and
\* parkProposal.
ReviewActions == {"accept", "reject", "park"}

\* The operation a review action is reported under.
ReviewOps == {"proposal." \o action : action \in ReviewActions}

\* The status a review action writes.
ReviewStatus(action) ==
    CASE action = "accept" -> "accepted"
      [] action = "reject" -> "rejected"
      [] action = "park" -> "parked"

\* A review whose accept, like reject and park, checks only that the
\* proposal exists.
ReviewRead_Unguarded(c, action, proposalId, userId) ==
    /\ calls[c].pc = "idle"
    /\ LET proposal == ProposalGetById(proposalId)
       IN IF IsNull(proposal)
          THEN /\ calls' = calls
               /\ ret' = ReviewResult("proposal." \o action, proposalId, FALSE,
                                      "NotFound", "Proposal not found")
          ELSE /\ calls' = [calls EXCEPT ![c] =
                      [pc |-> "update", op |-> "proposal." \o action, action |-> action,
                       proposalId |-> proposalId, userId |-> userId,
                       seen |-> Get(proposal).status, at |-> now]]
               /\ ret' = ret
    /\ UNCHANGED <<intents, decisions, graph, deployment, sinks, proposals, now>>

\* acceptProposal, rejectProposal, parkProposal up to their second await:
\* const [proposal] = await db.select()..., and the guards of the action on
\* what it returned: all three refuse a missing proposal, accept alone refuses
\* one that is not pending.  The statement of the update is built in the same
\* run, so its new Date().toISOString() is read here.
ReviewRead(c, action, proposalId, userId) ==
    /\ calls[c].pc = "idle"
    /\ LET proposal == ProposalGetById(proposalId)
       IN IF IsNull(proposal)
          THEN /\ calls' = calls
               /\ ret' = ReviewResult("proposal." \o action, proposalId, FALSE,
                                      "NotFound", "Proposal not found")
          ELSE IF action = "accept" /\ Get(proposal).status # "pending"
          THEN /\ calls' = calls
               /\ ret' = ReviewResult("proposal." \o action, proposalId, FALSE,
                                      "AlreadyReviewed",
                                      "Proposal already " \o Get(proposal).status)
          ELSE /\ calls' = [calls EXCEPT ![c] =
                      [pc |-> "update", op |-> "proposal." \o action, action |-> action,
                       proposalId |-> proposalId, userId |-> userId,
                       seen |-> Get(proposal).status, at |-> now]]
               /\ ret' = ret
    /\ UNCHANGED <<intents, decisions, graph, deployment, sinks, proposals, now>>

\* A review whose reject also files the proposal's statement as an assumption.
ReviewUpdate_Materializes(c) ==
    /\ calls[c].pc = "update"
    /\ calls[c].op \in ReviewOps
    /\ proposals' = SetReview(proposals, calls[c].proposalId,
                              ReviewStatus(calls[c].action), calls[c].userId, calls[c].at)
    /\ assumptions' = IF calls[c].action = "reject"
                      THEN Append(assumptions, [id |-> "a1", source |-> calls[c].proposalId])
                      ELSE assumptions
    /\ calls' = [calls EXCEPT ![c] = Idle]
    /\ ret' = ReviewResult("proposal." \o calls[c].action, calls[c].proposalId,
                           TRUE, "", "")
    /\ UNCHANGED <<intents, decisions, risks, tasks, edges, minted, deployment, sinks, now>>

\* The awaited update of a review executes: set status, reviewedBy and
\* reviewedAt, the stamp the statement was built with, where the id matches,
\* and return { success: true }.  Nothing is stored for an accepted proposal: the code
\* that would is a comment.
ReviewUpdate(c) ==
    /\ calls[c].pc = "update"
    /\ calls[c].op \in ReviewOps
    /\ proposals' = SetReview(proposals, calls[c].proposalId,
                              ReviewStatus(calls[c].action), calls[c].userId, calls[c].at)
    /\ calls' = [calls EXCEPT ![c] = Idle]
    /\ ret' = ReviewResult("proposal." \o calls[c].action, calls[c].proposalId,
                           TRUE, "", "")
    /\ UNCHANGED <<intents, decisions, graph, deployment, sinks, now>>

\* IngestionService.getPendingProposals: the select is filtered by intent_id
\* alone.
GetPendingProposals(table, intentId) ==
    Rows(table, LAMBDA r : r.intentId = Some(intentId))

\* The review specification: proposals are extracted and reviewed, each
\* extraction or review requested when the one before it has returned.  No intent is stored, so
\* a request naming one fails the foreign key of ai_proposals.
NextReview ==
    \/ \E i \in {Null, Some("ghost")}, configured \in BOOLEAN :
           ProcessStart(1, "t1", "u1", i, configured)
    \/ \E rejects \in BOOLEAN, extractions \in Responses :
           /\ Len(proposals) + Len(ParseExtractions(extractions)) <= MaxProposals
           /\ ProcessComplete(1, rejects, extractions)
    \/ \E outcome \in {"ok", "error"} : ProcessInsert(1, outcome)
    \/ ProcessSelect(1)
    \/ \E action \in ReviewActions, id \in ProposalIdInputs, u \in Users :
           ReviewRead(1, action, id, u)
    \/ ReviewUpdate(1)
    \/ (now < MaxTime /\ Tick)

SpecReview == Init /\ [][NextReview]_vars

\* Review requests in flight together on the proposals extracted so far.
NextReviewRace ==
    \/ ProcessStart(1, "t1", "u1", Null, TRUE)
    \/ \E extractions \in Responses :
           /\ Len(proposals) + Len(ParseExtractions(extractions)) <= MaxProposals
           /\ ProcessComplete(1, FALSE, extractions)
    \/ ProcessInsert(1, "ok")
    \/ ProcessSelect(1)
    \/ \E c \in 1..MaxCalls, action \in ReviewActions, id \in ProposalIdInputs, u \in Users :
           ReviewRead(c, action, id, u)
    \/ \E c \in 1..MaxCalls : ReviewUpdate(c)
    \/ (now < MaxTime /\ Tick)

SpecReviewRace == Init /\ [][NextReviewRace]_vars

(***************************************************************************)
(* The automated agent: ingestion and the Brain webhook                     *)
(***************************************************************************)
BrainTopics == {"brain.pulse.intent.created", "brain.memory.created", "other"}
BrainIntentTypes == {"SURFACE_TASK", "REQUEST_INPUT", "OTHER"}

\* JSON.stringify({ type: 'BRAIN_SURFACE', reason, brainPulseId })
BrainSurfaceContent ==
    <<"{", "\"type\"", ":", JsonQuote("BRAIN_SURFACE"), ",",
      "\"reason\"", ":", JsonQuote("stale"), ",",
      "\"brainPulseId\"", ":", JsonQuote("bp1"), "}">>

\* JSON.stringify({ type: 'BRAIN_REQUEST', question, context, brainPulseId })
BrainRequestContent ==
    <<"{", "\"type\"", ":", JsonQuote("BRAIN_REQUEST"), ",",
      "\"question\"", ":", JsonQuote("which database?"), ",",
      "\"brainPulseId\"", ":", JsonQuote("bp1"), "}">>

\* The row the webhook inserts; the columns it does not name take their
\* defaults (null).
NewBrainProposal(table, intentId, content) ==
    [id |-> ProposalId(Len(table) + 1),
     intentId |-> intentId,
     proposalType |-> "question",
     content |-> content,
     promptTemplateId |-> Null,
     modelUsed |-> Some("brain"),
     confidence |-> Null,
     status |-> "pending",
     reviewedBy |-> Null,
     reviewedAt |-> Null]

\* brainWebhookRoutes.post('/').  memoryId is payload.memory_id.
BrainWebhook(topic, intentType, memoryId) ==
    /\ IF topic = "brain.pulse.intent.created"
       THEN IF intentType = "SURFACE_TASK"
            THEN IF ProposalForeignKeyHolds(memoryId)
                 THEN /\ proposals' = Append(proposals,
                              NewBrainProposal(proposals, memoryId, BrainSurfaceContent))
                      /\ ret' = [op |-> "webhook.brain", ok |-> TRUE, processed |-> intentType]
                 ELSE /\ proposals' = proposals
                      /\ ret' = [op |-> "webhook.brain", ok |-> FALSE, processed |-> "Throw"]
            ELSE IF intentType = "REQUEST_INPUT"
            THEN /\ proposals' = Append(proposals,
                         NewBrainProposal(proposals, Null, BrainRequestContent))
                 /\ ret' = [op |-> "webhook.brain", ok |-> TRUE, processed |-> intentType]
            ELSE /\ proposals' = proposals
                 /\ ret' = [op |-> "webhook.brain", ok |-> TRUE, processed |-> intentType]
       ELSE /\ proposals' = proposals
            /\ ret' = [op |-> "webhook.brain", ok |-> TRUE,
                       processed |-> IF topic = "brain.memory.created"
                                     THEN "memory.created" ELSE "unknown"]
    /\ UNCHANGED <<intents, decisions, graph, deployment, sinks, calls, now>>

\* The agent specification: intents are created by people; the extraction
\* service and the webhook file proposals.
NextAgent ==
    \/ \E c \in Sessions, t \in Titles :
           Len(intents) < MaxLifecycleIntents /\ IntentCreate(c.tenantId, c.userId, t)
    \/ \E c \in Sessions, i \in {Null} \cup {Some(x) : x \in LifecycleIdInputs},
          configured \in BOOLEAN :
           ProcessStart(1, c.tenantId, c.userId, i, configured)
    \/ \E rejects \in BOOLEAN, extractions \in Responses :
           /\ Len(proposals) + Len(ParseExtractions(extractions)) <= MaxProposals
           /\ ProcessComplete(1, rejects, extractions)
    \/ \E outcome \in {"ok", "error"} : ProcessInsert(1, outcome)
    \/ ProcessSelect(1)
    \/ \E topic \in BrainTopics, intentType \in BrainIntentTypes,
          m \in {Null} \cup {Some(x) : x \in LifecycleIdInputs} :
           BrainWebhook(topic, intentType, m) /\ Len(proposals') <= MaxProposals

SpecAgent == Init /\ [][NextAgent]_vars

\* The intent ids an inbox request may name: the stored intent, or none.
InboxIntentInputs == {Null, Some(IntentId(1)), Some("ghost")}

\* The replies of the extraction provider in the inbox specification.
InboxResponses ==
    {<<Extraction("decision")>>,
     <<Extraction("assumption"), Extraction("task"), Extraction("question")>>}

\* The proposals the extraction in flight, if any, has yet to insert.
ToInsert ==
    IF calls[1].pc = "insert" THEN Len(calls[1].parsed)
    ELSE IF calls[1].pc = "select" THEN Len(calls[1].parsed) - 1
    ELSE 0

\* The inbox specification: proposals are extracted for a stored intent or
\* filed by the webhook, listed and reviewed.
NextInbox ==
    \/ /\ intents = << >>
       /\ IntentCreate("t1", "u1", "A")
    \/ \E i \in InboxIntentInputs, configured \in BOOLEAN :
           ProcessStart(1, "t1", "u1", i, configured)
    \/ \E rejects \in BOOLEAN, extractions \in InboxResponses :
           /\ Len(proposals) + Len(ParseExtractions(extractions)) <= MaxInbox
           /\ ProcessComplete(1, rejects, extractions)
    \/ \E outcome \in {"ok", "error"} : ProcessInsert(1, outcome)
    \/ ProcessSelect(1)
    \/ \E intentType \in BrainIntentTypes, m \in InboxIntentInputs :
           /\ Len(proposals) + ToInsert < MaxInbox
           /\ BrainWebhook("brain.pulse.intent.created", intentType, m)
    \/ \E id \in InboxIdInputs, action \in ReviewActions : ReviewRead(1, action, id, "u2")
    \/ ReviewUpdate(1)

SpecInbox == Init /\ [][NextInbox]_vars

(***************************************************************************)
(* Entities and the knowledge graph                                         *)
(***************************************************************************)
AssumptionId(n) == "a" \o ToString(n)
RiskId(n) == "r" \o ToString(n)
TaskId(n) == "k" \o ToString(n)
EdgeId(n) == "e" \o ToString(n)

\* The ids a request may name: one of a stored row, or one of no row.
IdsOf(table) == {table[k].id : k \in 1..Len(table)} \cup {"ghost"}

\* db.delete(table).where(...): the rows that do not match stay, in order.
DeleteWhere(table, Where(_)) == SelectSeq(table, LAMBDA r : ~Where(r))

\* const [row] = await db.select().from(table).where(eq(table.id, id)): the
\* getById of the three entity services, and the read-back of every create.
FindById(table, id) ==
    LET found == Rows(table, LAMBDA r : r.id = id)
    IN IF Len(found) = 0 THEN Null ELSE Some(found[1])

\* What a call on the graph resolves to: the id it was about and the row it
\* returns, if it returns one.
GraphResult(op, id, row) == [op |-> op, id |-> id, row |-> row]

\* The request of a create or an update that is suspended before its select.
GraphCall(pc, op, id) == [pc |-> pc, op |-> op, id |-> id]

\* AssumptionService.create up to its second await: the insert.
AssumptionCreateInsert(c, tenantId, intentId) ==
    /\ calls[c].pc = "idle"
    /\ IF ~ForeignKeyHolds(intentId)
       THEN /\ assumptions' = assumptions
            /\ calls' = calls
            /\ ret' = GraphResult("assumption.create", "Throw", Null)
       ELSE /\ assumptions' = Append(assumptions,
                   [id |-> AssumptionId(minted + 1), intentId |-> intentId,
                    assumptionStatement |-> "Users want exports",
                    createdFrom |-> "human", status |-> "active"])
            /\ calls' = [calls EXCEPT ![c] =
                   GraphCall("select", "assumption.create", AssumptionId(minted + 1))]
            /\ ret' = ret
    /\ minted' = minted + 1
    /\ UNCHANGED <<intents, decisions, risks, tasks, edges, deployment, sinks, proposals, now>>

\* const [assumption] = await db.select()...where(eq(assumptions.id, id)), and
\* the return of what it found.
AssumptionCreateSelect(c) ==
    /\ calls[c].pc = "select"
    /\ calls[c].op = "assumption.create"
    /\ ret' = GraphResult("assumption.create", calls[c].id,
                          FindById(assumptions, calls[c].id))
    /\ calls' = [calls EXCEPT ![c] = Idle]
    /\ UNCHANGED <<intents, decisions, graph, deployment, sinks, proposals, now>>

\* The bodies UpdateAssumptionSchema accepts that the model draws from.
AssumptionPatches ==
    {[assumptionStatement |-> Some("Users want CSV exports"), status |-> Null],
     [assumptionStatement |-> Null, status |-> Some("active")]}

\* AssumptionService.update up to its second await: await
\* db.update(assumptions).set(data).where(eq(assumptions.id, id)).
AssumptionUpdate(c, id, data) ==
    /\ calls[c].pc = "idle"
    /\ assumptions' = UpdateWhere(assumptions, LAMBDA r : r.id = id,
                          LAMBDA r : [r EXCEPT
                              !.assumptionStatement =
                                  IF IsNull(data.assumptionStatement) THEN @
                                  ELSE Get(data.assumptionStatement),
                              !.status = IF IsNull(data.status) THEN @
                                         ELSE Get(data.status)])
    /\ calls' = [calls EXCEPT ![c] = GraphCall("getById", "assumption.update", id)]
    /\ UNCHANGED <<intents, decisions, risks, tasks, edges, minted, deployment, sinks, proposals, now, ret>>

\* AssumptionService.invalidate: update(id, { status: 'invalidated' }).
AssumptionInvalidate(c, id) ==
    AssumptionUpdate(c, id, [assumptionStatement |-> Null, status |-> Some("invalidated")])

\* return this.getById(id)
AssumptionUpdateGet(c) ==
    /\ calls[c].pc = "getById"
    /\ calls[c].op = "assumption.update"
    /\ ret' = GraphResult("assumption.update", calls[c].id,
                          FindById(assumptions, calls[c].id))
    /\ calls' = [calls EXCEPT ![c] = Idle]
    /\ UNCHANGED <<intents, decisions, graph, deployment, sinks, proposals, now>>

\* AssumptionMonitor.invalidate: the one update, and return true.
MonitorInvalidate(assumptionId) ==
    /\ assumptions' = UpdateWhere(assumptions, LAMBDA r : r.id = assumptionId,
                          LAMBDA r : [r EXCEPT !.status = "invalidated"])
    /\ ret' = GraphResult("monitor.invalidate", assumptionId, Null)
    /\ UNCHANGED <<intents, decisions, risks, tasks, edges, minted, deployment, sinks, proposals, calls, now>>

\* RiskService.create up to its second await: the insert.
RiskCreateInsert(c, tenantId, intentId) ==
    /\ calls[c].pc = "idle"
    /\ IF ~ForeignKeyHolds(intentId)
       THEN /\ risks' = risks
            /\ calls' = calls
            /\ ret' = GraphResult("risk.create", "Throw", Null)
       ELSE /\ risks' = Append(risks,
                   [id |-> RiskId(minted + 1), intentId |-> intentId,
                    riskStatement |-> "Vendor lock-in",
                    createdFrom |-> "human", mitigationNotes |-> Null,
                    status |-> "active"])
            /\ calls' = [calls EXCEPT ![c] =
                   GraphCall("select", "risk.create", RiskId(minted + 1))]
            /\ ret' = ret
    /\ minted' = minted + 1
    /\ UNCHANGED <<intents, decisions, assumptions, tasks, edges, deployment, sinks, proposals, now>>

\* const [risk] = await db.select()...where(eq(risks.id, id)), and the return.
RiskCreateSelect(c) ==
    /\ calls[c].pc = "select"
    /\ calls[c].op = "risk.create"
    /\ ret' = GraphResult("risk.create", calls[c].id, FindById(risks, calls[c].id))
    /\ calls' = [calls EXCEPT ![c] = Idle]
    /\ UNCHANGED <<intents, decisions, graph, deployment, sinks, proposals, now>>

\* The bodies UpdateRiskSchema accepts that the model draws from.
RiskPatches ==
    {[riskStatement |-> Some("Vendor raises prices"), mitigationNotes |-> Null,
      status |-> Null],
     [riskStatement |-> Null, mitigationNotes |-> Null, status |-> Some("accepted")]}

\* RiskService.update up to its second await: await
\* db.update(risks).set(data).where(eq(risks.id, id)).
RiskUpdate(c, id, data) ==
    /\ calls[c].pc = "idle"
    /\ risks' = UpdateWhere(risks, LAMBDA r : r.id = id,
                    LAMBDA r : [r EXCEPT
                        !.riskStatement = IF IsNull(data.riskStatement) THEN @
                                          ELSE Get(data.riskStatement),
                        !.mitigationNotes = IF IsNull(data.mitigationNotes) THEN @
                                            ELSE data.mitigationNotes,
                        !.status = IF IsNull(data.status) THEN @ ELSE Get(data.status)])
    /\ calls' = [calls EXCEPT ![c] = GraphCall("getById", "risk.update", id)]
    /\ UNCHANGED <<intents, decisions, assumptions, tasks, edges, minted, deployment, sinks, proposals, now, ret>>

\* RiskService.mitigate: update(id, { status: 'mitigated', mitigationNotes: notes }).
RiskMitigate(c, id, notes) ==
    RiskUpdate(c, id, [riskStatement |-> Null, mitigationNotes |-> Some(notes),
                       status |-> Some("mitigated")])

\* return this.getById(id)
RiskUpdateGet(c) ==
    /\ calls[c].pc = "getById"
    /\ calls[c].op = "risk.update"
    /\ ret' = GraphResult("risk.update", calls[c].id, FindById(risks, calls[c].id))
    /\ calls' = [calls EXCEPT ![c] = Idle]
    /\ UNCHANGED <<intents, decisions, graph, deployment, sinks, proposals, now>>

\* TaskService.create, with no decisionId, up to its second await: the insert.
TaskCreateInsert(c, tenantId, intentId) ==
    /\ calls[c].pc = "idle"
    /\ IF ~ForeignKeyHolds(intentId)
       THEN /\ tasks' = tasks
            /\ calls' = calls
            /\ ret' = GraphResult("task.create", "Throw", Null)
       ELSE /\ tasks' = Append(tasks,
                   [id |-> TaskId(minted + 1), intentId |-> intentId,
                    decisionId |-> Null, title |-> "Migrate", status |-> "pending"])
            /\ calls' = [calls EXCEPT ![c] =
                   GraphCall("select", "task.create", TaskId(minted + 1))]
            /\ ret' = ret
    /\ minted' = minted + 1
    /\ UNCHANGED <<intents, decisions, assumptions, risks, edges, deployment, sinks, proposals, now>>

\* const [task] = await db.select()...where(eq(tasks.id, id)), and the return.
TaskCreateSelect(c) ==
    /\ calls[c].pc = "select"
    /\ calls[c].op = "task.create"
    /\ ret' = GraphResult("task.create", calls[c].id, FindById(tasks, calls[c].id))
    /\ calls' = [calls EXCEPT ![c] = Idle]
    /\ UNCHANGED <<intents, decisions, graph, deployment, sinks, proposals, now>>

\* The bodies UpdateTaskSchema accepts that the model draws from.
TaskPatches == {[title |-> Some("Migrate the data"), status |-> Null]}

\* The statuses POST /:id/transition is given in the model.
TaskStatusInputs == {"in_progress", "completed"}

\* TaskService.update up to its second await: await
\* db.update(tasks).set(data).where(eq(tasks.id, id)).
TaskUpdate(c, id, data) ==
    /\ calls[c].pc = "idle"
    /\ tasks' = UpdateWhere(tasks, LAMBDA r : r.id = id,
                    LAMBDA r : [r EXCEPT
                        !.title = IF IsNull(data.title) THEN @ ELSE Get(data.title),
                        !.status = IF IsNull(data.status) THEN @ ELSE Get(data.status)])
    /\ calls' = [calls EXCEPT ![c] = GraphCall("getById", "task.update", id)]
    /\ UNCHANGED <<intents, decisions, assumptions, risks, edges, minted, deployment, sinks, proposals, now, ret>>

\* TaskService.transition: update(id, { status }), whatever the status was.
TaskTransition(c, id, status) ==
    TaskUpdate(c, id, [title |-> Null, status |-> Some(status)])

\* return this.getById(id)
TaskUpdateGet(c) ==
    /\ calls[c].pc = "getById"
    /\ calls[c].op = "task.update"
    /\ ret' = GraphResult("task.update", calls[c].id, FindById(tasks, calls[c].id))
    /\ calls' = [calls EXCEPT ![c] = Idle]
    /\ UNCHANGED <<intents, decisions, graph, deployment, sinks, proposals, now>>

\* An entity delete that cleans up the edges of the entity first.
DeleteEntityEdges_Cascade(table, id) ==
    DeleteWhere(table, LAMBDA e : e.sourceId = id \/ e.targetId = id)

\* What the delete of an entity does to table edges: nothing.
DeleteEntityEdges(table, id) == table

\* AssumptionService.delete
AssumptionDelete(id) ==
    /\ assumptions' = DeleteWhere(assumptions, LAMBDA r : r.id = id)
    /\ edges' = DeleteEntityEdges(edges, id)
    /\ ret' = GraphResult("assumption.delete", id, Null)
    /\ UNCHANGED <<intents, decisions, risks, tasks, minted, deployment, sinks, proposals, calls, now>>

\* RiskService.delete
RiskDelete(id) ==
    /\ risks' = DeleteWhere(risks, LAMBDA r : r.id = id)
    /\ edges' = DeleteEntityEdges(edges, id)
    /\ ret' = GraphResult("risk.delete", id, Null)
    /\ UNCHANGED <<intents, decisions, assumptions, tasks, minted, deployment, sinks, proposals, calls, now>>

\* TaskService.delete
TaskDelete(id) ==
    /\ tasks' = DeleteWhere(tasks, LAMBDA r : r.id = id)
    /\ edges' = DeleteEntityEdges(edges, id)
    /\ ret' = GraphResult("task.delete", id, Null)
    /\ UNCHANGED <<intents, decisions, assumptions, risks, minted, deployment, sinks, proposals, calls, now>>

\* The endpoints a caller may name: a stored entity with its type, or an id
\* of no entity, under one type or another.
EndpointInputs ==
    {[id |-> assumptions[k].id, type |-> "assumption"] : k \in 1..Len(assumptions)}
    \cup {[id |-> risks[k].id, type |-> "risk"] : k \in 1..Len(risks)}
    \cup {[id |-> tasks[k].id, type |-> "task"] : k \in 1..Len(tasks)}
    \cup {[id |-> "ghost", type |-> "task"], [id |-> "ghost", type |-> "risk"]}

\* The bodies of POST /api/edges that pass CreateEdgeSchema.
EdgeInputs ==
    {[sourceId |-> s.id, sourceType |-> s.type, targetId |-> t.id, targetType |-> t.type,
      edgeType |-> "depends_on"] : s \in EndpointInputs, t \in EndpointInputs}

\* The row EdgeService.create inserts.
NewEdge(id, createdBy, data) ==
    [id |-> id, sourceId |-> data.sourceId, sourceType |-> data.sourceType,
     targetId |-> data.targetId, targetType |-> data.targetType,
     edgeType |-> data.edgeType, createdBy |-> createdBy]

\* A create that stores nothing when an edge of the same endpoints and type
\* is stored.
EdgeCreateInsert_Dedup(c, createdBy, data) ==
    /\ calls[c].pc = "idle"
    /\ edges' = IF \E k \in 1..Len(edges) :
                      NewEdge(edges[k].id, createdBy, data) = edges[k]
                THEN edges
                ELSE Append(edges, NewEdge(EdgeId(minted + 1), createdBy, data))
    /\ minted' = minted + 1
    /\ calls' = [calls EXCEPT ![c] = GraphCall("select", "edge.create", EdgeId(minted + 1))]
    /\ UNCHANGED <<intents, decisions, assumptions, risks, tasks, deployment, sinks, proposals, now, ret>>

\* EdgeService.create up to its second await: await db.insert(edges).values(...).
EdgeCreateInsert(c, createdBy, data) ==
    /\ calls[c].pc = "idle"
    /\ edges' = Append(edges, NewEdge(EdgeId(minted + 1), createdBy, data))
    /\ minted' = minted + 1
    /\ calls' = [calls EXCEPT ![c] = GraphCall("select", "edge.create", EdgeId(minted + 1))]
    /\ UNCHANGED <<intents, decisions, assumptions, risks, tasks, deployment, sinks, proposals, now, ret>>

\* const [edge] = await db.select()...where(eq(edges.id, id)), and the return.
EdgeCreateSelect(c) ==
    /\ calls[c].pc = "select"
    /\ calls[c].op = "edge.create"
    /\ ret' = GraphResult("edge.create", calls[c].id, FindById(edges, calls[c].id))
    /\ calls' = [calls EXCEPT ![c] = Idle]
    /\ UNCHANGED <<intents, decisions, graph, deployment, sinks, proposals, now>>

\* EdgeService.delete
EdgeDelete(id) ==
    /\ edges' = DeleteWhere(edges, LAMBDA e : e.id = id)
    /\ ret' = GraphResult("edge.delete", id, Null)
    /\ UNCHANGED <<intents, decisions, assumptions, risks, tasks, minted, deployment, sinks, proposals, calls, now>>

\* A cleanup that removes only the edges leaving the node.
EdgeDeleteByNode_SourceOnly(nodeId) ==
    /\ edges' = DeleteWhere(edges, LAMBDA e : e.sourceId = nodeId)
    /\ ret' = GraphResult("edge.deleteByNode", nodeId, Null)
    /\ UNCHANGED <<intents, decisions, assumptions, risks, tasks, minted, deployment, sinks, proposals, calls, now>>

\* EdgeService.deleteByNode
EdgeDeleteByNode(nodeId) ==
    /\ edges' = DeleteWhere(edges, LAMBDA e : e.sourceId = nodeId \/ e.targetId = nodeId)
    /\ ret' = GraphResult("edge.deleteByNode", nodeId, Null)
    /\ UNCHANGED <<intents, decisions, assumptions, risks, tasks, minted, deployment, sinks, proposals, calls, now>>

\* The outgoing edges followed by the incoming ones.
GetByNode_Concat(table, nodeId) ==
    Rows(table, LAMBDA e : e.sourceId = nodeId) \o Rows(table, LAMBDA e : e.targetId = nodeId)

\* EdgeService.getByNode, getOutgoing, getIncoming over a content of the table
GetByNode(table, nodeId) ==
    Rows(table, LAMBDA e : e.sourceId = nodeId \/ e.targetId = nodeId)

GetOutgoing(table, nodeId) == Rows(table, LAMBDA e : e.sourceId = nodeId)

GetIncoming(table, nodeId) == Rows(table, LAMBDA e : e.targetId = nodeId)

\* Map.prototype.set on a map kept as the sequence of its entries: a key the
\* map holds keeps its place and takes the new value, a new key goes last.
MapSet(map, key, value) ==
    IF \E k \in 1..Len(map) : map[k].id = key
    THEN [k \in 1..Len(map) |->
             IF map[k].id = key THEN [id |-> key, type |-> value] ELSE map[k]]
    ELSE Append(map, [id |-> key, type |-> value])

RECURSIVE NodeSet(_, _)
\* The loop of buildGraph over allEdges, from the map built so far.
NodeSet(map, allEdges) ==
    IF Len(allEdges) = 0 THEN map
    ELSE NodeSet(MapSet(MapSet(map, allEdges[1].sourceId, allEdges[1].sourceType),
                        allEdges[1].targetId, allEdges[1].targetType),
                 Tail(allEdges))

\* EdgeService.buildGraph: intentId is not read.
BuildGraph(table, intentId) ==
    [nodes |-> NodeSet(<< >>, table), edges |-> table]

\* The graph specification: one intent, entities under it, edges between
\* whatever the callers name.  The requests that await twice are made one
\* after the other; the others come at any time.
NextGraph ==
    \/ /\ Len(intents) < MaxLifecycleIntents
       /\ IntentCreate("t1", "u1", "A")
    \/ \E i \in LifecycleIdInputs : minted < MaxMinted /\ AssumptionCreateInsert(1, "t1", i)
    \/ AssumptionCreateSelect(1)
    \/ \E i \in LifecycleIdInputs : minted < MaxMinted /\ RiskCreateInsert(1, "t1", i)
    \/ RiskCreateSelect(1)
    \/ \E i \in LifecycleIdInputs : minted < MaxMinted /\ TaskCreateInsert(1, "t1", i)
    \/ TaskCreateSelect(1)
    \/ \E id \in IdsOf(assumptions) : AssumptionDelete(id)
    \/ \E id \in IdsOf(risks) : RiskDelete(id)
    \/ \E id \in IdsOf(tasks) : TaskDelete(id)
    \/ \E data \in EdgeInputs :
           minted < MaxMinted /\ Len(edges) < MaxEdges /\ EdgeCreateInsert(1, "u1", data)
    \/ EdgeCreateSelect(1)
    \/ \E id \in IdsOf(edges) : EdgeDelete(id)
    \/ \E n \in {e.id : e \in EndpointInputs} : EdgeDeleteByNode(n)

SpecGraph == Init /\ [][NextGraph]_vars

\* The entity specification: assumptions, risks and tasks of one intent are
\* created, rewritten and deleted by requests in flight together.
NextEntities ==
    \/ /\ Len(intents) < MaxLifecycleIntents
       /\ IntentCreate("t1", "u1", "A")
    \/ \E c \in 1..MaxCalls, i \in LifecycleIdInputs :
           minted < MaxEntities /\ AssumptionCreateInsert(c, "t1", i)
    \/ \E c \in 1..MaxCalls : AssumptionCreateSelect(c)
    \/ \E c \in 1..MaxCalls, id \in IdsOf(assumptions), data \in AssumptionPatches :
           AssumptionUpdate(c, id, data)
    \/ \E c \in 1..MaxCalls, id \in IdsOf(assumptions) : AssumptionInvalidate(c, id)
    \/ \E c \in 1..MaxCalls : AssumptionUpdateGet(c)
    \/ \E id \in IdsOf(assumptions) : MonitorInvalidate(id)
    \/ \E c \in 1..MaxCalls, i \in LifecycleIdInputs :
           minted < MaxEntities /\ RiskCreateInsert(c, "t1", i)
    \/ \E c \in 1..MaxCalls : RiskCreateSelect(c)
    \/ \E c \in 1..MaxCalls, id \in IdsOf(risks), data \in RiskPatches :
           RiskUpdate(c, id, data)
    \/ \E c \in 1..MaxCalls, id \in IdsOf(risks) : RiskMitigate(c, id, "dual sourcing")
    \/ \E c \in 1..MaxCalls : RiskUpdateGet(c)
    \/ \E c \in 1..MaxCalls, i \in LifecycleIdInputs :
           minted < MaxEntities /\ TaskCreateInsert(c, "t1", i)
    \/ \E c \in 1..MaxCalls : TaskCreateSelect(c)
    \/ \E c \in 1..MaxCalls, id \in IdsOf(tasks), data \in TaskPatches :
           TaskUpdate(c, id, data)
    \/ \E c \in 1..MaxCalls, id \in IdsOf(tasks), status \in TaskStatusInputs :
           TaskTransition(c, id, status)
    \/ \E c \in 1..MaxCalls : TaskUpdateGet(c)
    \/ \E id \in IdsOf(assumptions) : AssumptionDelete(id)
    \/ \E id \in IdsOf(risks) : RiskDelete(id)
    \/ \E id \in IdsOf(tasks) : TaskDelete(id)

SpecEntities == Init /\ [][NextEntities]_vars

(***************************************************************************)
(* Properties of the Intent lifecycle                                       *)
(***************************************************************************)
\* The step in which a call of operation op returns: an operation of one
\* statement, or a handler that returns before its next await, leaves the
\* connections as they were and sets the result; a handler that was
\* suspended frees its connection.
Returns(op) ==
    /\ ret'.op = op
    /\ \/ calls' = calls
       \/ \E c \in 1..MaxCalls :
              calls[c].pc # "idle" /\ calls[c].op = op /\ calls'[c].pc = "idle"

\* The step in which the call of operation op suspended on connection c
\* returns.
ReturnsFrom(c, op) ==
    calls[c].pc # "idle" /\ calls[c].op = op /\ calls'[c].pc = "idle" /\ ret'.op = op

\* The step in which a call of operation op passes its first await on
\* connection c and is suspended at its second.
Starts(c, op) ==
    calls[c].pc = "idle" /\ calls'[c].pc # "idle" /\ calls'[c].op = op

\* The row occurs in the sequence.
Contains(seq, row) == \E k \in 1..Len(seq) : seq[k] = row

\* The legal table of the lifecycle, as sets of target states.
LegalTable ==
    [s \in IntentStates |->
        CASE s = "research"  -> {"planning", "archived"}
          [] s = "planning"  -> {"research", "execution", "archived"}
          [] s = "execution" -> {"planning", "archived"}
          [] s = "archived"  -> {}]

\* The stored intent a call (tenantId, id) addresses, as a set of row numbers.
Addressed(tenantId, id) ==
    {k \in 1..Len(intents) : intents[k].id = id /\ intents[k].tenantId = tenantId}

\* C1: with the transition calls made one after the other, every successful
\* call moves currentState of the addressed intent along an edge of the legal
\* table (and of no other intent); a call whose target is not in the current
\* state's allowed set fails with InvalidTransition, and a failed call leaves
\* every currentState unchanged.
C1_TransitionsFollowTable ==
    [][Returns("intent.transition") =>
          /\ Len(intents') = Len(intents)
          /\ \A k \in 1..Len(intents) :
                IF ret'.ok /\ k \in Addressed(ret'.tenantId, ret'.id)
                THEN /\ ret'.target \in LegalTable[intents[k].currentState]
                     /\ intents'[k].currentState = ret'.target
                ELSE intents'[k].currentState = intents[k].currentState
          /\ ret'.ok => Addressed(ret'.tenantId, ret'.id) # {}
          /\ \A k \in Addressed(ret'.tenantId, ret'.id) :
                ret'.target \notin LegalTable[intents[k].currentState] =>
                    /\ ~ret'.ok
                    /\ ret'.kind = "InvalidTransition"
      ]_vars

\* An intent that was moved to execution, and a call back to research that
\* was refused with the allowed set named.
C1_Witness ==
    /\ ret.op = "intent.transition"
    /\ ~ret.ok
    /\ ret.error = "Invalid transition: execution → research. Allowed: planning, archived"
    /\ \E k \in 1..Len(intents) :
          /\ intents[k].id = ret.id
          /\ intents[k].currentState = "execution"
          /\ ~IsNull(intents[k].lastHumanReviewedAt)

\* C2: archived is absorbing: an archived intent stays archived in every
\* later state, and every transition call addressed to it fails with
\* InvalidTransition, whatever the target.
C2_ArchivedAbsorbing ==
    [][\A k \in 1..Len(intents) :
          intents[k].currentState = "archived" =>
              /\ Len(intents') >= k
              /\ intents'[k].currentState = "archived"
              /\ (Returns("intent.transition")
                    /\ k \in Addressed(ret'.tenantId, ret'.id)) =>
                     (~ret'.ok /\ ret'.kind = "InvalidTransition")
      ]_vars

\* The scenario's end: an archived intent, and a transition to execution
\* refused with an empty allowed set.
C2_Witness ==
    /\ ret.op = "intent.transition"
    /\ ~ret.ok
    /\ ret.error = "Invalid transition: archived → execution. Allowed: none"
    /\ \E k \in Addressed(ret.tenantId, ret.id) : intents[k].currentState = "archived"

(***************************************************************************)
(* Properties of the Decision ledger                                        *)
(***************************************************************************)
\* The stored decision carries the back-reference supersedes:<id>.
HasBackReference(row, id) ==
    /\ ~IsNull(row.aiInputsReferenced)
    /\ Includes(Get(row.aiInputsReferenced), JsonQuote("supersedes:" \o id))

\* A decision with its status masked: the fields that never change.
Substance(row) == [row EXCEPT !.status = "-"]

\* C4: a decision's status changes only from active to superseded, never
\* back, and only in the update of a supersede call that names that decision;
\* a new decision starts active.
C4_StatusChangesOnce ==
    [][/\ \A k \in 1..Len(decisions) :
            /\ k <= Len(decisions')
            /\ decisions[k].status = "superseded" => decisions'[k].status = "superseded"
            /\ decisions'[k].status # decisions[k].status =>
                  /\ decisions[k].status = "active"
                  /\ decisions'[k].status = "superseded"
                  /\ \E c \in 1..MaxCalls :
                         /\ calls[c].pc = "update"
                         /\ calls[c].op = "decision.supersede"
                         /\ calls[c].originalId = decisions[k].id
                         /\ calls'[c].pc = "insert"
       /\ \A k \in (Len(decisions) + 1)..Len(decisions') : decisions'[k].status = "active"
      ]_vars

\* A decision superseded by the call that names it, and its replacement,
\* which starts active.
C4_Witness ==
    /\ ret.op = "decision.supersede"
    /\ ret.ok
    /\ Len(decisions) = 2
    /\ ret.originalId = decisions[1].id
    /\ decisions[1].status = "superseded"
    /\ decisions[2].status = "active"
    /\ decisions[2] = ret.replacement

\* C5: the ledger is append-only: no step removes a decision, and no step
\* changes any field of a stored decision other than its status.
C5_AppendOnly ==
    [][/\ Len(decisions') >= Len(decisions)
       /\ \A k \in 1..Len(decisions) : Substance(decisions'[k]) = Substance(decisions[k])
      ]_vars

\* A superseded decision that still carries what was committed, followed
\* by its replacement.
C5_Witness ==
    /\ Len(decisions) >= 2
    /\ decisions[1].status = "superseded"
    /\ decisions[1].finalChoice = "Use Postgres"
    /\ decisions[1].optionsConsidered = Some(<<"[", "\"A\"", ",", "\"B\"", "]">>)
    /\ decisions[2].finalChoice = "Use SQLite"
    /\ HasBackReference(decisions[2], decisions[1].id)

\* A supersede call that has flipped the decision with this id and has yet to
\* insert its replacement.
Replacing(id) ==
    \E c \in 1..MaxCalls :
        /\ calls[c].pc = "insert"
        /\ calls[c].op = "decision.supersede"
        /\ calls[c].originalId = id

\* C6: supersede is atomic under partial failure: a superseded decision has
\* the replacement that superseded it, or the supersede call that flipped it
\* is about to insert one.
C6_SupersedeAtomic ==
    \A k \in 1..Len(decisions) :
        decisions[k].status = "superseded" =>
            \/ \E j \in 1..Len(decisions) : HasBackReference(decisions[j], decisions[k].id)
            \/ Replacing(decisions[k].id)

\* C7: of the concurrent supersede calls naming one decision at most one
\* stores a replacement: the decision never has two.
C7_OneSupersedeWins ==
    \A k \in 1..Len(decisions) :
        Cardinality({j \in 1..Len(decisions) :
                        HasBackReference(decisions[j], decisions[k].id)}) <= 1

\* The decision with this id is stored and active.
ActiveStored(id) ==
    \E k \in 1..Len(decisions) : decisions[k].id = id /\ decisions[k].status = "active"

\* C8: a supersede call naming no stored decision, or a decision that is
\* not active, goes no further than its read: it fails and writes nothing.
C8_FailedSupersedeWritesNothing ==
    [][/\ \A c \in 1..MaxCalls :
              Starts(c, "decision.supersede") => ActiveStored(calls'[c].originalId)
       /\ (ret'.op = "decision.supersede" /\ calls' = calls) =>
              /\ ~ActiveStored(ret'.originalId)
              /\ ~ret'.ok
              /\ ret'.kind = "Null"
              /\ decisions' = decisions
      ]_vars

\* A second supersede of a decision that was already superseded, refused.
C8_Witness ==
    /\ ret.op = "decision.supersede"
    /\ ~ret.ok
    /\ ret.kind = "Null"
    /\ \E k \in 1..Len(decisions) :
          /\ decisions[k].id = ret.originalId
          /\ decisions[k].status = "superseded"
          /\ \E j \in 1..Len(decisions) : HasBackReference(decisions[j], decisions[k].id)

\* C9: when a successful supersede of d returns, it returns d as superseded
\* and the replacement as active, and every result getActiveByIntent can
\* give for d's intent leaves d out and holds the replacement.
C9_ActiveLedgerAfterSupersede ==
    [][(Returns("decision.supersede") /\ ret'.ok) =>
        /\ ret'.original.id = ret'.originalId
        /\ ret'.original.status = "superseded"
        /\ ret'.replacement.status = "active"
        /\ \A i \in IntentIdInputs :
              i = ret'.original.intentId =>
                  \A result \in GetActiveByIntent(i)' :
                      /\ ~\E k \in 1..Len(result) : result[k].id = ret'.original.id
                      /\ \E k \in 1..Len(result) : result[k] = ret'.replacement
      ]_vars

(***************************************************************************)
(* Properties of the Proposal workflow                                      *)
(***************************************************************************)
\* A review call on the proposal with this id returns in this step.
ReviewReturns(id) == \E op \in ReviewOps : Returns(op) /\ ret'.proposalId = id

\* C3: a proposal is reviewed once: a successful review call moves it from
\* pending to accepted, rejected or parked; once it is not pending, every
\* accept, reject or park call on it fails with AlreadyReviewed, and its
\* status, reviewedBy and reviewedAt stay as the first review set them.
C3_SingleReview ==
    [][\A k \in 1..Len(proposals) :
          /\ k <= Len(proposals')
          /\ proposals'[k].status # proposals[k].status =>
                /\ proposals[k].status = "pending"
                /\ proposals'[k].status \in {"accepted", "rejected", "parked"}
          /\ proposals[k].status # "pending" =>
                /\ proposals'[k].status = proposals[k].status
                /\ proposals'[k].reviewedBy = proposals[k].reviewedBy
                /\ proposals'[k].reviewedAt = proposals[k].reviewedAt
                /\ ReviewReturns(proposals[k].id) =>
                      (~ret'.ok /\ ret'.kind = "AlreadyReviewed")
      ]_vars

\* The entities stored for a proposal type.
Materialized(type) ==
    CASE type = "decision"   -> decisions
      [] type = "assumption" -> assumptions
      [] type = "risk"       -> risks
      [] OTHER               -> << >>

\* C10: a successful accept of a pending decision, assumption or risk
\* proposal stores exactly one new entity of that type, an assumption or
\* risk being marked createdFrom = ai; no other review step stores any.
C10_AcceptMaterializes ==
    [][(\E op \in ReviewOps : Returns(op)) =>
          \A type \in {"decision", "assumption", "risk"} :
              IF /\ ret'.op = "proposal.accept"
                 /\ ret'.ok
                 /\ \E k \in 1..Len(proposals) :
                       /\ proposals[k].id = ret'.proposalId
                       /\ proposals[k].status = "pending"
                       /\ proposals[k].proposalType = type
              THEN /\ Len(Materialized(type)') = Len(Materialized(type)) + 1
                   /\ type \in {"assumption", "risk"} =>
                         Materialized(type)'[Len(Materialized(type)')].createdFrom = "ai"
              ELSE Materialized(type)' = Materialized(type)
      ]_vars

(***************************************************************************)
(* The agent only proposes                                                  *)
(***************************************************************************)
\* A step of the extraction service or of the Brain webhook.
AgentStep ==
    \/ Returns("ingestion.process")
    \/ Returns("webhook.brain")
    \/ \E c \in 1..MaxCalls :
           /\ calls'[c] # calls[c]
           /\ calls'[c].pc # "idle"
           /\ calls'[c].op = "ingestion.process"

\* C11: a step of ingestion or of the Brain webhook leaves intents, decisions,
\* assumptions, risks, tasks and edges as they were, keeps every stored
\* proposal, and every proposal it adds is pending with no reviewer.
C11_AgentOnlyProposes ==
    [][AgentStep =>
         /\ <<intents, decisions, assumptions, risks, tasks, edges>>'
                = <<intents, decisions, assumptions, risks, tasks, edges>>
         /\ Len(proposals') >= Len(proposals)
         /\ SubSeq(proposals', 1, Len(proposals)) = proposals
         /\ \A k \in (Len(proposals) + 1)..Len(proposals') :
                /\ proposals'[k].status = "pending"
                /\ IsNull(proposals'[k].reviewedBy)
                /\ IsNull(proposals'[k].reviewedAt)
      ]_vars

\* Ingestion has filed a proposal under a stored intent.
C11_Witness ==
    /\ ret.op = "ingestion.process"
    /\ ret.ok
    /\ Len(ret.proposals) = 1
    /\ Len(intents) = 1
    /\ ret.proposals[1].intentId = Some(intents[1].id)
    /\ ret.proposals[1].status = "pending"
    /\ Contains(proposals, ret.proposals[1])

(***************************************************************************)
(* Refused accepts                                                          *)
(***************************************************************************)
Tables == <<intents, decisions, assumptions, risks, tasks, edges, proposals>>

\* C12: an accept naming no stored proposal fails with "Proposal not found",
\* an accept naming a proposal that is not pending fails with "Proposal
\* already <status>"; both leave every table, the proposal's status,
\* reviewedBy and reviewedAt included, as it was.
C12_RefusedAcceptWritesNothing ==
    [][Returns("proposal.accept") =>
         LET proposal == ProposalGetById(ret'.proposalId)
         IN IF IsNull(proposal)
            THEN /\ ~ret'.ok
                 /\ ret'.error = "Proposal not found"
                 /\ Tables' = Tables
            ELSE Get(proposal).status # "pending" =>
                 /\ ~ret'.ok
                 /\ ret'.error = "Proposal already " \o Get(proposal).status
                 /\ Tables' = Tables
      ]_vars

\* An accept was refused because the proposal had been rejected before.
C12_Witness ==
    /\ ret.op = "proposal.accept"
    /\ ~ret.ok
    /\ ret.error = "Proposal already rejected"
    /\ \E k \in 1..Len(proposals) :
           /\ proposals[k].id = ret.proposalId
           /\ proposals[k].status = "rejected"

(***************************************************************************)
(* Reject and park only mark the proposal                                   *)
(***************************************************************************)
\* The columns of a proposal that a review does not write.
Unreviewed(row) == [row EXCEPT !.status = "-", !.reviewedBy = Null, !.reviewedAt = Null]

\* C13: a successful reject (park) sets the named proposal's status to
\* rejected (parked), its reviewedBy, and its reviewedAt to the time read when
\* the update was built, changes no other column and no other proposal, and leaves intents, decisions, assumptions,
\* risks, tasks and edges as they were.
C13_RejectParkOnlyMark ==
    [][((Returns("proposal.reject") \/ Returns("proposal.park")) /\ ret'.ok) =>
         /\ <<intents, decisions, assumptions, risks, tasks, edges>>'
                = <<intents, decisions, assumptions, risks, tasks, edges>>
         /\ Len(proposals') = Len(proposals)
         /\ \A k \in 1..Len(proposals) :
                IF proposals[k].id = ret'.proposalId
                THEN /\ Unreviewed(proposals'[k]) = Unreviewed(proposals[k])
                     /\ proposals'[k].status =
                            (IF ret'.op = "proposal.reject" THEN "rejected" ELSE "parked")
                     /\ proposals'[k].reviewedBy \in {Some(u) : u \in Users}
                     /\ \E c \in 1..MaxCalls :
                            /\ ReturnsFrom(c, ret'.op)
                            /\ proposals'[k].reviewedAt = Some(calls[c].at)
                ELSE proposals'[k] = proposals[k]
      ]_vars

\* A pending proposal has just been parked.
C13_Witness ==
    /\ ret.op = "proposal.park"
    /\ ret.ok
    /\ \E k \in 1..Len(proposals) :
           /\ proposals[k].id = ret.proposalId
           /\ proposals[k].status = "parked"
           /\ ~IsNull(proposals[k].reviewedBy)
    /\ assumptions = << >> /\ risks = << >> /\ decisions = << >>

(***************************************************************************)
(* What commit stores and returns                                           *)
(***************************************************************************)
\* C14: the insert of a commit stores exactly one more decision, whose id no
\* stored decision had, with status active and humanApprover the calling
\* user, and leaves the decisions stored before unchanged; the commit then
\* returns that row, which is stored as returned, and every result getLedger
\* can give for its intent contains it.
C14_CommitAddsOne ==
    [][/\ \A c \in 1..MaxCalls :
              Starts(c, "decision.commit") =>
                  /\ Len(decisions') = Len(decisions) + 1
                  /\ SubSeq(decisions', 1, Len(decisions)) = decisions
                  /\ LET created == decisions'[Len(decisions')]
                     IN /\ \A k \in 1..Len(decisions) : decisions[k].id # created.id
                        /\ created.status = "active"
                        /\ created.humanApprover = calls'[c].userId
                        /\ calls'[c].created = created
       /\ (Returns("decision.commit") /\ ret'.ok) =>
              /\ decisions' = decisions
              /\ Contains(decisions, ret'.created)
              /\ ret'.created.humanApprover = ret'.userId
              /\ \A i \in IntentIdInputs :
                     i = ret'.created.intentId =>
                         \A ledger \in GetLedger(i)' : Contains(ledger, ret'.created)
      ]_vars

\* A second decision has been committed on an intent that already had one.
C14_Witness ==
    /\ ret.op = "decision.commit"
    /\ ret.ok
    /\ Len(decisions) = 2
    /\ decisions[2] = ret.created
    /\ decisions[1].intentId = decisions[2].intentId
    /\ decisions[2].humanApprover = ret.userId

(***************************************************************************)
(* The replacement written by supersede                                     *)
(***************************************************************************)
\* The references the caller passed, none if the field is absent.
GivenReferences(input) ==
    IF IsNull(input.aiInputsReferenced) THEN << >> ELSE Get(input.aiInputsReferenced)

\* C15: the replacement a successful supersede stores and returns has, as
\* aiInputsReferenced, the sequence of newInput's references (none if absent)
\* followed by the one entry supersedes:<originalId>; its intentId,
\* decisionStatement, optionsConsidered, finalChoice and revisitCondition are
\* newInput's.
C15_ReplacementFromInput ==
    [][(Returns("decision.supersede") /\ ret'.ok) =>
         LET r == ret'.replacement
             input == ret'.newInput
         IN /\ Contains(decisions', r)
            /\ r.aiInputsReferenced =
                   Some(GivenReferences(input) \o <<"supersedes:" \o ret'.originalId>>)
            /\ r.intentId = input.intentId
            /\ r.decisionStatement = input.decisionStatement
            /\ r.finalChoice = input.finalChoice
            /\ r.revisitCondition = input.revisitCondition
            /\ r.optionsConsidered = input.optionsConsidered
      ]_vars

(***************************************************************************)
(* Order of the ledger queries                                              *)
(***************************************************************************)
Reverse(seq) == [k \in 1..Len(seq) |-> seq[Len(seq) + 1 - k]]

\* The decisions of an intent in the order they were created.
CreationOrder(intentId) == Rows(decisions, LAMBDA r : r.intentId = intentId)

\* C16: getLedger returns the decisions of the intent, superseded ones
\* included, oldest first, and listByIntent returns them newest first: after
\* commit D1 and supersede D1 by D2, getLedger is <<D1, D2>>.
C16_LedgerChronological ==
    \A i \in IntentIdInputs :
        /\ \A ledger \in GetLedger(i) : ledger = CreationOrder(i)
        /\ \A listed \in ListByIntent(i) : listed = Reverse(CreationOrder(i))

(***************************************************************************)
(* Reading a committed decision back                                        *)
(***************************************************************************)
\* C17: a decision committed with an optionsConsidered sequence reads back,
\* in the record commit returns and in the record getById returns, with that
\* same sequence: the same elements in the same order.
C17_OptionsRoundTrip ==
    [][(/\ Returns("decision.commit")
        /\ ret'.ok
        /\ ~IsNull(ret'.input.optionsConsidered)) =>
         /\ ret'.created.optionsConsidered = ret'.input.optionsConsidered
         /\ Get(DecisionGetById(decisions', ret'.created.id)).optionsConsidered
                = ret'.input.optionsConsidered
      ]_vars

(***************************************************************************)
(* Who writes currentState                                                  *)
(***************************************************************************)
\* C18: an intent is created in state research, and a step that changes the
\* currentState of a stored intent is the update of a transition, which
\* then returns success: update, with whatever body the schema accepts, and
\* markReviewed leave it as it was.
C18_StateOnlyByTransition ==
    [][/\ Len(intents') >= Len(intents)
       /\ \A k \in (Len(intents) + 1)..Len(intents') :
              intents'[k].currentState = "research"
       /\ (\E k \in 1..Len(intents) :
               intents'[k].currentState # intents[k].currentState)
              => (Returns("intent.transition") /\ ret'.ok)
      ]_vars

\* An intent that was moved to planning has since been updated, and is still
\* in planning.
C18_Witness ==
    /\ ret.op = "intent.update"
    /\ ret.ok
    /\ \E k \in 1..Len(intents) :
           /\ intents[k].id = ret.id
           /\ intents[k].currentState = "planning"

(***************************************************************************)
(* Transition of an intent the tenant does not have                         *)
(***************************************************************************)
\* C19: a transition whose tenant stores no intent with the given id (the id
\* is unknown, or belongs to an intent of another tenant) fails with "Intent
\* not found" and leaves every stored intent as it was.
C19_TransitionNotFound ==
    [][(/\ Returns("intent.transition")
        /\ Addressed(ret'.tenantId, ret'.id) = {}) =>
         /\ ~ret'.ok
         /\ ret'.kind = "NotFound"
         /\ ret'.error = "Intent not found"
         /\ intents' = intents
      ]_vars

\* A tenant asked to transition an intent that another tenant owns.
C19_Witness ==
    /\ ret.op = "intent.transition"
    /\ ~ret.ok
    /\ ret.error = "Intent not found"
    /\ \E k \in 1..Len(intents) :
           intents[k].id = ret.id /\ intents[k].tenantId # ret.tenantId

(***************************************************************************)
(* markReviewed                                                             *)
(***************************************************************************)
Clock == 0..MaxTime

\* C20, idempotence: calling markReviewed twice, the second call no earlier
\* than the first, leaves the intents as calling it once does.  It holds
\* where the driver stores nothing; where the driver stores the Date the
\* second call carries its own stamp.
C20_MarkReviewedIdempotent ==
    \A c \in Sessions, id \in LifecycleIdInputs, t1 \in Clock, t2 \in Clock :
        t1 <= t2 =>
            MarkReviewedAt(MarkReviewedAt(intents, c.tenantId, id, t1), c.tenantId, id, t2)
                = MarkReviewedAt(intents, c.tenantId, id, t1)

\* C20, the change of one call: a markReviewed call that succeeds writes
\* lastHumanReviewedAt of the intent with the given id and tenant, setting it
\* to the time read when the call was made, and nothing else: currentState
\* and every other field, and every other intent, are unchanged, whatever the
\* intent's state; a call that fails writes nothing.
C20_MarkReviewedOnlyStamps ==
    [][\A c \in 1..MaxCalls : ReturnsFrom(c, "intent.markReviewed") =>
         /\ Len(intents') = Len(intents)
         /\ \A k \in 1..Len(intents) :
                IF ret'.ok /\ k \in Addressed(ret'.tenantId, ret'.id)
                THEN intents'[k] = [intents[k] EXCEPT
                                       !.lastHumanReviewedAt = Some(calls[c].at)]
                ELSE intents'[k] = intents[k]
         /\ ret'.ok => Addressed(ret'.tenantId, ret'.id) # {}
      ]_vars

\* An archived intent has been marked reviewed by a call made before the
\* clock advanced, and is still archived, with the stamp of that call.
C20_Witness ==
    /\ ret.op = "intent.markReviewed"
    /\ ret.ok
    /\ now > 0
    /\ \E k \in 1..Len(intents) :
           /\ intents[k].id = ret.id
           /\ intents[k].currentState = "archived"
           /\ intents[k].lastHumanReviewedAt = Some(0)

(***************************************************************************)
(* Events of the lifecycle                                                  *)
(***************************************************************************)
\* C21: a successful transition hands an intent.transitioned event for its
\* intent to the eventing sink.
C21_TransitionEmits ==
    [][(Returns("intent.transition") /\ ret'.ok) =>
         \E e \in (outbox' \cup bridge') \ (outbox \cup bridge) :
             e.topic = "pm.intent.transitioned" /\ e.intentId = ret'.id
      ]_vars

(***************************************************************************)
(* Failing collaborators                                                    *)
(***************************************************************************)
\* C22: whatever the memory sink answers to storeMemory, the commit that
\* awaited it goes on with its decision stored, the answer writes no
\* decision, and the commit returns that decision with no error; whatever
\* the eventing sink answers to an emission, no decision and no call changes.
C22_SinkFailureNotSurfaced ==
    [][/\ \A c \in 1..MaxCalls :
              /\ calls[c].pc = "storeMemory" =>
                     /\ calls'[c].pc \in {"storeMemory", "import"}
                     /\ calls'[c].created = calls[c].created
                     /\ Contains(decisions', calls[c].created)
                     /\ calls'[c].pc = "import" => decisions' = decisions
              /\ (calls[c].pc = "import" /\ calls'[c].pc = "idle") =>
                     /\ ret'.ok
                     /\ ret'.sync = calls[c].sync
                     /\ (IF ret'.op = "decision.commit" THEN ret'.created
                         ELSE ret'.replacement) = calls[c].created
                     /\ Contains(decisions', calls[c].created)
                     /\ decisions' = decisions
       /\ (outbox' \subseteq outbox /\ outbox' # outbox) =>
              decisions' = decisions /\ calls' = calls /\ ret' = ret
      ]_vars

\* A commit in brain mode has returned its decision although the memory sink
\* could not be reached and the bridge dropped its event.
C22_Witness ==
    /\ ret.op = "decision.commit"
    /\ ret.ok
    /\ ret.sync = "unreachable"
    /\ Contains(decisions, ret.created)
    /\ DecisionCommitted(ret.created) \notin (outbox \cup bridge)

\* C23: commit does not wait for a collaborator: no commit is ever suspended
\* with its return depending on an answer of the memory sink.
C23_CommitNeverWaits ==
    \A c \in 1..MaxCalls : calls[c].pc # "storeMemory"

(***************************************************************************)
(* The knowledge graph                                                      *)
(***************************************************************************)
EdgeIds(seq) == {seq[k].id : k \in 1..Len(seq)}

NodeIds == {e.id : e \in EndpointInputs}

\* C24: for every node id, getByNode returns the edges getOutgoing and
\* getIncoming return between them, and each of them once, a self-loop
\* included.
C24_EdgeQueriesSymmetric ==
    \A n \in NodeIds :
        /\ EdgeIds(GetByNode(edges, n))
               = EdgeIds(GetOutgoing(edges, n)) \cup EdgeIds(GetIncoming(edges, n))
        /\ Len(GetByNode(edges, n)) = Cardinality(EdgeIds(GetByNode(edges, n)))
        /\ \A k \in 1..Len(GetByNode(edges, n)) : Contains(edges, GetByNode(edges, n)[k])

\* A node has a self-loop and an edge to another node.
C24_Witness ==
    \E n \in NodeIds :
        /\ \E k \in 1..Len(edges) : edges[k].sourceId = n /\ edges[k].targetId = n
        /\ \E k \in 1..Len(edges) : edges[k].sourceId = n /\ edges[k].targetId # n
        /\ Len(GetByNode(edges, n)) = 2

\* An assumption, risk or task with this id is stored.
EntityStored(id) ==
    \/ \E k \in 1..Len(assumptions) : assumptions[k].id = id
    \/ \E k \in 1..Len(risks) : risks[k].id = id
    \/ \E k \in 1..Len(tasks) : tasks[k].id = id

\* C25: the step that deletes an assumption, a risk or a task leaves no edge
\* whose source or target is the deleted entity.
C25_DeleteCascades ==
    [][\A id \in NodeIds :
           (EntityStored(id) /\ ~EntityStored(id)') => GetByNode(edges', id) = << >>
      ]_vars

\* Edge e has node n as its source or as its target.
Touches(e, n) == e.sourceId = n \/ e.targetId = n

\* C26: deleteByNode(n) leaves no edge whose source or target is n, and keeps
\* every other edge as it was and in its place; delete(id) leaves no edge with
\* that id and keeps every other edge, so for an id no edge has it changes
\* nothing.  Neither writes to another table.
C26_EdgeDeletesExact ==
    [][/\ Returns("edge.deleteByNode") =>
              /\ GetByNode(edges', ret'.id) = << >>
              /\ \A k \in 1..Len(edges) :
                     ~Touches(edges[k], ret'.id) => Contains(edges', edges[k])
              /\ \A k \in 1..Len(edges') : Contains(edges, edges'[k])
              /\ Len(edges') = Len(edges) - Len(GetByNode(edges, ret'.id))
              /\ <<intents, decisions, assumptions, risks, tasks, proposals>>'
                     = <<intents, decisions, assumptions, risks, tasks, proposals>>
       /\ Returns("edge.delete") =>
              /\ ret'.id \notin EdgeIds(edges')
              /\ \A k \in 1..Len(edges) :
                     edges[k].id # ret'.id => Contains(edges', edges[k])
              /\ \A k \in 1..Len(edges') : Contains(edges, edges'[k])
              /\ ret'.id \notin EdgeIds(edges) => edges' = edges
              /\ <<intents, decisions, assumptions, risks, tasks, proposals>>'
                     = <<intents, decisions, assumptions, risks, tasks, proposals>>
      ]_vars

\* deleteByNode on a stored entity has removed its edge and kept the edge
\* between other nodes.
C26_Witness ==
    /\ ret.op = "edge.deleteByNode"
    /\ EntityStored(ret.id)
    /\ minted = 3
    /\ Len(edges) = 1
    /\ ~Touches(edges[1], ret.id)

\* Edges a and b have the same endpoints and the same type.
SameLink(a, b) ==
    /\ a.sourceId = b.sourceId /\ a.sourceType = b.sourceType
    /\ a.targetId = b.targetId /\ a.targetType = b.targetType
    /\ a.edgeType = b.edgeType

\* C27: the insert of every create appends exactly one edge, under an id no
\* stored edge has, and leaves the stored edges as they were, whatever its
\* endpoints name and whatever edges are stored; the create then returns
\* under that id and writes no edge.
C27_CreateAppendsOne ==
    [][/\ \A c \in 1..MaxCalls :
              Starts(c, "edge.create") =>
                  /\ Len(edges') = Len(edges) + 1
                  /\ SubSeq(edges', 1, Len(edges)) = edges
                  /\ edges'[Len(edges')].id = calls'[c].id
                  /\ calls'[c].id \notin EdgeIds(edges)
       /\ \A c \in 1..MaxCalls :
              (calls[c].pc # "idle" /\ calls[c].op = "edge.create"
                   /\ calls'[c].pc = "idle") =>
                  /\ ret'.op = "edge.create"
                  /\ ret'.id = calls[c].id
                  /\ edges' = edges
      ]_vars

\* A create has stored a second edge with the endpoints and type of the
\* first, and the endpoints name no stored entity.
C27_Witness ==
    /\ ret.op = "edge.create"
    /\ Len(edges) = 2
    /\ edges[2].id = ret.id
    /\ ret.row = Some(edges[2])
    /\ SameLink(edges[1], edges[2])
    /\ ~EntityStored(edges[1].sourceId)
    /\ ~EntityStored(edges[1].targetId)

\* The (id, type) pairs that occur as the source or the target of an edge.
EndpointPairs(table) ==
    {[id |-> table[k].sourceId, type |-> table[k].sourceType] : k \in 1..Len(table)}
    \cup {[id |-> table[k].targetId, type |-> table[k].targetType] : k \in 1..Len(table)}

\* C28: the nodes buildGraph returns are the (id, type) pairs that occur as an
\* endpoint of a stored edge, each once and nothing else.
C28_NodesAreEndpointPairs ==
    \A i \in LifecycleIdInputs :
        LET nodes == BuildGraph(edges, i).nodes
        IN  /\ {nodes[k] : k \in 1..Len(nodes)} = EndpointPairs(edges)
            /\ Len(nodes) = Cardinality(EndpointPairs(edges))

\* Some stored intent has this id.
IntentStored(intentId) == \E j \in 1..Len(intents) : intents[j].id = intentId

\* C29: a commit whose intentId names no stored intent succeeds: it returns
\* the decision and the decision is stored under that intentId.
C29_DanglingCommitStored ==
    [][(Returns("decision.commit") /\ ~IntentStored(ret'.intentId)) =>
           /\ ret'.ok
           /\ Contains(decisions', ret'.created)
           /\ ret'.created.intentId = ret'.intentId
      ]_vars

\* C30: every stored decision names a stored intent.
C30_DecisionReferencesIntent ==
    \A k \in 1..Len(decisions) : IntentStored(decisions[k].intentId)

\* A decision is stored, and a commit naming an intent that is not stored has
\* just been refused.
C30_Witness ==
    /\ Len(decisions) >= 1
    /\ ret.op = "decision.commit"
    /\ ~ret.ok
    /\ ~IntentStored(ret.intentId)

(***************************************************************************)
(* Properties of the proposal inbox                                         *)
(***************************************************************************)
\* The stored proposals of an intent that await review, in stored order.
PendingOf(table, intentId) ==
    SelectSeq(table, LAMBDA r : r.intentId = Some(intentId) /\ r.status = "pending")

\* C31: the pending-proposals query of an intent returns the proposals of
\* that intent whose status is pending and no other: a reviewed proposal is
\* not in it.
C31_PendingQueryOnlyPending ==
    \A i \in LifecycleIdInputs :
        GetPendingProposals(proposals, i) = PendingOf(proposals, i)

\* C32: with transition calls in flight together, every change of a stored
\* currentState is a step of the legal table; no write moves an intent out of
\* archived.
C32_ConcurrentTransitionsLegal ==
    [][\A k \in 1..Len(intents) :
           intents'[k].currentState # intents[k].currentState =>
               intents'[k].currentState \in LegalTable[intents[k].currentState]
      ]_vars

\* C33: of the review actions that found the same proposal pending, at most
\* one reports success: a review that found the proposal pending and reports
\* success wrote a proposal that no other review had written since.
C33_OneReviewWins ==
    [][\A c \in 1..MaxCalls :
           (/\ calls[c].pc = "update"
            /\ calls[c].op \in ReviewOps
            /\ calls[c].seen = "pending"
            /\ calls'[c].pc = "idle"
            /\ ret'.ok) =>
               \E k \in 1..Len(proposals) :
                   /\ proposals[k].id = calls[c].proposalId
                   /\ proposals[k].status = "pending"
      ]_vars

\* The stored decisions that carry the back-reference supersedes:<id>.
Successors(id) == {k \in 1..Len(decisions) : HasBackReference(decisions[k], id)}

\* C34: for every decision id X at most one stored decision carries the
\* back-reference supersedes:X, and one carries it only if X is stored with
\* status superseded.
C34_OneChainPerDecision ==
    \A x \in DecisionIdInputs :
        /\ Cardinality(Successors(x)) <= 1
        /\ Successors(x) # {} =>
               \E j \in 1..Len(decisions) :
                   decisions[j].id = x /\ decisions[j].status = "superseded"

\* C35: a stored proposal is pending exactly when it has neither a reviewer
\* nor a review time.
C35_PendingIffUnreviewed ==
    \A k \in 1..Len(proposals) :
        (proposals[k].status = "pending")
            <=> (IsNull(proposals[k].reviewedBy) /\ IsNull(proposals[k].reviewedAt))

\* One proposal has been parked, by the reviewer recorded on it, and another
\* still awaits review.
C35_Witness ==
    /\ ret.op = "proposal.park" /\ ret.ok
    /\ \E k \in 1..Len(proposals) :
           /\ proposals[k].id = ret.proposalId
           /\ proposals[k].status = "parked"
           /\ proposals[k].reviewedBy = Some("u2")
           /\ ~IsNull(proposals[k].reviewedAt)
    /\ \E k \in 1..Len(proposals) : proposals[k].status = "pending"

(***************************************************************************)
(* Tenant isolation                                                         *)
(***************************************************************************)
\* The operations of IntentService on stored intents.
IntentOps == {"intent.update", "intent.transition", "intent.markReviewed"}

\* C36: an IntentService call made for tenant T leaves every intent of
\* another tenant as it was, and getById and list for T return only intents
\* of T.  The reads depend on the table alone, so they are examined on every
\* content the table takes.
C36_IntentTenantIsolation ==
    [][/\ (\E op \in IntentOps : Returns(op)) =>
              /\ Len(intents') = Len(intents)
              /\ \A k \in 1..Len(intents) :
                     intents[k].tenantId # ret'.tenantId => intents'[k] = intents[k]
       /\ intents' # intents =>
              /\ \A t \in Tenants, id \in LifecycleIdInputs :
                     LET got == IntentGetById(t, id)'
                     IN  IsNull(got) \/ Get(got).tenantId = t
              /\ \A t \in Tenants, state \in {Null} \cup {Some(x) : x \in IntentStates} :
                     LET rows == IntentList(intents', t, state)
                     IN  \A k \in 1..Len(rows) : rows[k].tenantId = t
      ]_vars

\* Another tenant has asked to mark the intent reviewed, on a driver that
\* runs the update; no row matched and the intent carries no review stamp.
C36_Witness ==
    /\ ret.op = "intent.markReviewed"
    /\ DateBinds
    /\ ret.kind = "NotFound"
    /\ \E k \in 1..Len(intents) :
           /\ intents[k].id = ret.id
           /\ intents[k].tenantId # ret.tenantId
           /\ IsNull(intents[k].lastHumanReviewedAt)

\* The tenant a user's requests are made for.
TenantOf(userId) == (CHOOSE x \in Sessions : x.userId = userId).tenantId

\* C37: a supersede succeeds only for the tenant that owns the intent of the
\* original decision; made for another tenant it fails and changes nothing.
C37_SupersedeTenantIsolation ==
    [][(Returns("decision.supersede") /\ ret'.ok) =>
           \A k \in 1..Len(decisions), j \in 1..Len(intents) :
               (decisions[k].id = ret'.originalId /\ intents[j].id = decisions[k].intentId)
                   => intents[j].tenantId = TenantOf(ret'.userId)
      ]_vars

\* C38: the proposals a call of process stores are the proposals it returns,
\* and a call that returns an error returns none: it has stored none.  The
\* rows a call has stored and read back are those of its stored list.
C38_ProcessReturnsWhatItStored ==
    [][Returns("ingestion.process") =>
           /\ \A k \in 1..Len(ret'.proposals) : Contains(proposals', ret'.proposals[k])
           /\ ~ret'.ok => ret'.proposals = << >>
           /\ \A c \in 1..MaxCalls :
                  (calls[c].pc # "idle" /\ calls[c].op = "ingestion.process"
                       /\ calls'[c].pc = "idle") =>
                      \A k \in 1..Len(calls[c].stored) :
                          Contains(ret'.proposals, calls[c].stored[k])
      ]_vars

\* Node n is the intent itself or a stored assumption, risk or task filed
\* under it (decisions are not stored in the graph specification).
RelatedTo(n, intentId) ==
    \/ n = intentId
    \/ \E k \in 1..Len(assumptions) :
           assumptions[k].id = n /\ assumptions[k].intentId = intentId
    \/ \E k \in 1..Len(risks) : risks[k].id = n /\ risks[k].intentId = intentId
    \/ \E k \in 1..Len(tasks) : tasks[k].id = n /\ tasks[k].intentId = intentId

\* C39: every edge buildGraph(intentId) returns has a source or a target
\* related to that intent.
C39_GraphScopedToIntent ==
    \A i \in LifecycleIdInputs :
        LET built == BuildGraph(edges, i)
        IN  \A k \in 1..Len(built.edges) :
                \/ RelatedTo(built.edges[k].sourceId, i)
                \/ RelatedTo(built.edges[k].targetId, i)

====
